---- MODULE Spec2Model ----
(***************************************************************************)
(* A model of the fitness tracker's REST back end: the four record kinds   *)
(* (workouts, meals, sleep, progress), their create / update / delete      *)
(* handlers with the Mongoose save hooks, the Express route tables, the    *)
(* statistics endpoints and the dashboard composer.                        *)
(*                                                                         *)
(* Conventions                                                             *)
(*  - instants are whole seconds since the epoch (1970-01-01T00:00:00Z, a  *)
(*    Thursday); the server's local time zone is UTC, except under         *)
(*    SpecZone, where it is a fixed offset from UTC;                       *)
(*  - MET values are kept in tenths (9.8 is 98); meal food fields are in   *)
(*    tenths and quantities in hundredths; meal totals are in hundredths;  *)
(*  - arithmetic is exact (rational), so the model does not show the       *)
(*    binary floating point error of the JavaScript numbers;               *)
(*  - a request body is a function whose domain is the set of fields the   *)
(*    body carries; a collection is a function from document ids to        *)
(*    documents.                                                           *)
(***************************************************************************)
EXTENDS Integers, Sequences, FiniteSets, TLC

VARIABLES
  users,      \* User collection: registered user id -> profile
  workouts,   \* Workout collection: _id -> document
  meals,      \* Meal collection
  sleeps,     \* Sleep collection
  progress,   \* Progress collection
  inflight,   \* POST /api/workouts handlers between Workout.create and workout.save
  nextId,     \* the next fresh ObjectId
  now,        \* the server clock
  res         \* what the server did last: the handler, its user, the HTTP status
              \* (0 while the handler is suspended at an await), the document id
              \* and the response data

vars == <<users, workouts, meals, sleeps, progress, inflight, nextId, now, res>>

(***************************************************************************)
(* Bounds of the model.                                                    *)
(***************************************************************************)
MaxDocs == 1        \* documents created in a run, all collections together
MaxDays == 40       \* days the clock advances in a run
MaxProgress == 11   \* progress entries of the weight log

UserIds == {"u1", "u2"}

(***************************************************************************)
(* Numbers.                                                                *)
(***************************************************************************)
Abs(x) == IF x < 0 THEN -x ELSE x

\* Math.round(n / d) for d > 0: floor(n / d + 1/2), the nearest integer with
\* halves towards +Infinity.
Round(n, d) == (2 * n + d) \div (2 * d)

Day == 86400
Minute == 60

\* The empty function: a body without fields, an empty collection.
Empty == [x \in {} |-> 0]

\* A JSON number that may be null (JSON.stringify writes NaN and Infinity as null).
JNull == [isNull |-> TRUE, v |-> 0]
JNum(n) == [isNull |-> FALSE, v |-> n]

Has(body, f) == f \in DOMAIN body

\* Mongo's $set of the body's fields on a document (fields outside the schema
\* are dropped by Mongoose's strict mode).
Merge(doc, body) ==
  [f \in DOMAIN doc |-> IF f \in DOMAIN body THEN body[f] ELSE doc[f]]

Remove(coll, id) == [i \in DOMAIN coll \ {id} |-> coll[i]]

\* findOne({_id}) in place of findOne({_id, user}): the lookup without the user
OwnedAnyUser(coll, u) == DOMAIN coll

\* The ids findOne({_id: req.params.id, user: req.user.id}) finds for user u
Owned(coll, u) == {i \in DOMAIN coll : coll[i].user = u}

(***************************************************************************)
(* models/Workout.js                                                       *)
(***************************************************************************)
MET_VALUES ==
  [ running       |-> ("5 mph" :> 83 @@ "6 mph" :> 98 @@ "7 mph" :> 110 @@
                       "8 mph" :> 118 @@ "9 mph" :> 128 @@ "10 mph" :> 145),
    cycling       |-> ("leisurely" :> 35 @@ "moderate" :> 68 @@ "vigorous" :> 100 @@
                       "racing" :> 158),
    swimming      |-> ("leisurely" :> 58 @@ "moderate" :> 70 @@ "vigorous" :> 98),
    yoga          |-> ("hatha" :> 25 @@ "power" :> 40 @@ "vinyasa" :> 30),
    weightlifting |-> ("light" :> 30 @@ "moderate" :> 50 @@ "vigorous" :> 60),
    walking       |-> ("slow" :> 20 @@ "moderate" :> 35 @@ "brisk" :> 43 @@
                       "very_brisk" :> 50),
    dancing       |-> ("slow" :> 30 @@ "moderate" :> 48 @@ "fast" :> 55),
    basketball    |-> ("casual" :> 60 @@ "competitive" :> 80),
    soccer        |-> ("casual" :> 70 @@ "competitive" :> 100),
    tennis        |-> ("singles" :> 80 @@ "doubles" :> 50),
    hiking        |-> ("easy" :> 40 @@ "moderate" :> 60 @@ "strenuous" :> 80) ]

\* Workout.getIntensities
getIntensities(exerciseType) ==
  IF exerciseType \in DOMAIN MET_VALUES THEN DOMAIN MET_VALUES[exerciseType] ELSE {}

\* MET_VALUES[exerciseType]?.[intensity], 0 standing for undefined
getMETValue(exerciseType, intensity) ==
  IF intensity \in getIntensities(exerciseType)
  THEN MET_VALUES[exerciseType][intensity] ELSE 0

\* The value calculateCaloriesBurned assigns: Math.round(MET * weight * duration / 60)
CaloriesFormula(exerciseType, intensity, duration, weight) ==
  Round(getMETValue(exerciseType, intensity) * weight * duration, 600)

\* workout.calculateCaloriesBurned(): the document with caloriesBurned set, or
\* the document as it is when the promise rejects (no MET value).
calculateCaloriesBurned(doc, weight) ==
  IF getMETValue(doc.exerciseType, doc.intensity) = 0
  THEN doc
  ELSE [doc EXCEPT !.caloriesBurned =
          CaloriesFormula(doc.exerciseType, doc.intensity, doc.duration, weight)]

\* The schema's validators, as runValidators applies them to the fields of an update.
WorkoutUpdateValid(body) ==
  /\ Has(body, "exerciseType") => body.exerciseType \in DOMAIN MET_VALUES
  /\ Has(body, "duration") => body.duration \in 1..480
  /\ Has(body, "user") => body.user \in UserIds

(***************************************************************************)
(* Responses.                                                              *)
(***************************************************************************)
NoData == Empty

\* The request of a GET: the router it is mounted on and the path below the mount.
NoRequest == [router |-> "", path |-> <<>>]

Response(op, u, status, id, data) ==
  [op |-> op, user |-> u, status |-> status, id |-> id, data |-> data,
   req |-> NoRequest]

Init ==
  /\ users = Empty
  /\ workouts = Empty
  /\ meals = Empty
  /\ sleeps = Empty
  /\ progress = Empty
  /\ inflight = {}
  /\ nextId = 1
  /\ now = 0
  /\ res = Response("start", "", 0, 0, NoData)

(***************************************************************************)
(* routes/auth.js: POST /api/auth/register, PUT /api/auth/profile          *)
(***************************************************************************)
RegisterValid(body) ==
  /\ body.weight \in 20..300
  /\ body.height \in 100..250

\* user.calculateBMR() with the female coefficients for everybody
calculateBMRFemale(user) ==
  Round(447593 + 9247 * user.weight + 3098 * user.height - 4330 * user.age, 1000)

\* user.calculateBMR(): Math.round(bmr), the coefficients in thousandths
calculateBMR(user) ==
  IF user.gender = "male"
  THEN Round(88362 + 13397 * user.weight + 4799 * user.height - 5677 * user.age, 1000)
  ELSE Round(447593 + 9247 * user.weight + 3098 * user.height - 4330 * user.age, 1000)

\* targetWeight: targetWeight || weight. The gender and the age of the user are
\* carried where the request of the model states them, and the response's bmr
\* with them. (Left out: the token and the other fields of the response.)
Register(u, body) ==
  /\ UNCHANGED <<workouts, meals, sleeps, progress, inflight, nextId, now>>
  /\ IF ~RegisterValid(body) \/ u \in DOMAIN users
     THEN /\ res' = Response("POST /api/auth/register", u, 400, 0, NoData)
          /\ UNCHANGED users
     ELSE LET user == [weight |-> body.weight,
                       height |-> body.height,
                       targetWeight |-> IF Has(body, "targetWeight")
                                           /\ body.targetWeight # 0
                                        THEN body.targetWeight
                                        ELSE body.weight]
                        @@ [f \in DOMAIN body \cap {"gender", "age"} |-> body[f]]
          IN /\ users' = (u :> user) @@ users
             /\ res' = Response("POST /api/auth/register", u, 201, 0,
                                IF Has(body, "gender") /\ Has(body, "age")
                                THEN [bmr |-> calculateBMR(user)]
                                ELSE NoData)

ProfileValid(body) ==
  /\ Has(body, "weight") => body.weight \in 20..300
  /\ Has(body, "height") => body.height \in 100..250
  /\ Has(body, "targetWeight") => body.targetWeight \in 20..300

UpdateProfile(u, body) ==
  /\ u \in DOMAIN users
  /\ UNCHANGED <<workouts, meals, sleeps, progress, inflight, nextId, now>>
  /\ IF ~ProfileValid(body)
     THEN /\ res' = Response("PUT /api/auth/profile", u, 400, 0, NoData)
          /\ UNCHANGED users
     ELSE /\ users' = [users EXCEPT ![u] = Merge(@, body)]
          /\ res' = Response("PUT /api/auth/profile", u, 200, 0, NoData)

(***************************************************************************)
(* routes/workouts.js                                                      *)
(***************************************************************************)
\* express-validator's chain of POST /api/workouts
PostWorkoutValid(body) ==
  /\ Has(body, "exerciseType") /\ body.exerciseType # ""
  /\ Has(body, "intensity") /\ body.intensity # ""
  /\ Has(body, "duration") /\ body.duration \in 1..480

\* express-validator's chain of PUT /api/workouts/:id
PutWorkoutValid(body) ==
  /\ Has(body, "exerciseType") => body.exerciseType # ""
  /\ Has(body, "intensity") => body.intensity # ""
  /\ Has(body, "duration") => body.duration \in 1..480

\* No check of the pair
PostIntensityAny(body) == TRUE

\* The handler's own check of the pair; a PUT makes it only when the body
\* carries both fields.
PostIntensityOk(body) == body.intensity \in getIntensities(body.exerciseType)

PutIntensityOk(body) ==
  (Has(body, "exerciseType") /\ Has(body, "intensity"))
    => body.intensity \in getIntensities(body.exerciseType)

\* POST /api/workouts up to the end of Workout.create: the pre('save') hook
\* starts calculateCaloriesBurned without awaiting it, so the document is
\* inserted with the schema default caloriesBurned = 0.
PostWorkoutCreate(u, body) ==
  /\ u \in DOMAIN users
  /\ UNCHANGED <<users, meals, sleeps, progress, now>>
  /\ IF ~PostWorkoutValid(body) \/ ~PostIntensityOk(body)
     THEN /\ res' = Response("POST /api/workouts", u, 400, 0, NoData)
          /\ UNCHANGED <<workouts, inflight, nextId>>
     ELSE LET doc == [user |-> u,
                      exerciseType |-> body.exerciseType,
                      intensity |-> body.intensity,
                      duration |-> body.duration,
                      date |-> IF Has(body, "date") THEN body.date ELSE now,
                      caloriesBurned |-> 0]
          IN /\ workouts' = (nextId :> doc) @@ workouts
             /\ inflight' = inflight \cup {[id |-> nextId, doc |-> doc]}
             /\ nextId' = nextId + 1
             /\ res' = Response("POST /api/workouts", u, 0, nextId, NoData)

\* The rest of POST /api/workouts: await workout.calculateCaloriesBurned(), then
\* await workout.save(), which writes the modified path caloriesBurned to the
\* stored document. When the document was deleted in between, save() finds
\* nothing to update and, depending on the Mongoose version, throws (500) or not.
PostWorkoutSave(h) ==
  /\ h \in inflight
  /\ inflight' = inflight \ {h}
  /\ UNCHANGED <<users, meals, sleeps, progress, nextId, now>>
  /\ LET doc == calculateCaloriesBurned(h.doc, users[h.doc.user].weight)
     IN IF h.id \in DOMAIN workouts
        THEN /\ workouts' = [workouts EXCEPT ![h.id].caloriesBurned = doc.caloriesBurned]
             /\ res' = Response("POST /api/workouts", h.doc.user, 201, h.id, doc)
        ELSE /\ UNCHANGED workouts
             /\ \E st \in {201, 500} :
                  res' = Response("POST /api/workouts", h.doc.user, st, h.id,
                                  IF st = 201 THEN doc ELSE NoData)

\* PUT /api/workouts/:id: findOne({_id, user}), the pair check, then
\* findByIdAndUpdate(id, req.body, {new, runValidators}), which runs no
\* save hook.
PutWorkout(u, id, body) ==
  /\ u \in DOMAIN users
  /\ UNCHANGED <<users, meals, sleeps, progress, inflight, nextId, now>>
  /\ IF ~PutWorkoutValid(body)
     THEN /\ res' = Response("PUT /api/workouts/:id", u, 400, id, NoData)
          /\ UNCHANGED workouts
     ELSE IF id \notin Owned(workouts, u)
     THEN /\ res' = Response("PUT /api/workouts/:id", u, 404, id, NoData)
          /\ UNCHANGED workouts
     ELSE IF ~PutIntensityOk(body)
     THEN /\ res' = Response("PUT /api/workouts/:id", u, 400, id, NoData)
          /\ UNCHANGED workouts
     ELSE IF ~WorkoutUpdateValid(body)
     THEN /\ res' = Response("PUT /api/workouts/:id", u, 500, id, NoData)
          /\ UNCHANGED workouts
     ELSE /\ workouts' = [workouts EXCEPT ![id] = Merge(@, body)]
          /\ res' = Response("PUT /api/workouts/:id", u, 200, id, Merge(workouts[id], body))

\* DELETE /api/workouts/:id
DeleteWorkout(u, id) ==
  /\ u \in DOMAIN users
  /\ UNCHANGED <<users, meals, sleeps, progress, inflight, nextId, now>>
  /\ IF id \notin Owned(workouts, u)
     THEN /\ res' = Response("DELETE /api/workouts/:id", u, 404, id, NoData)
          /\ UNCHANGED workouts
     ELSE /\ workouts' = Remove(workouts, id)
          /\ res' = Response("DELETE /api/workouts/:id", u, 200, id, NoData)

(***************************************************************************)
(* Request bodies.                                                         *)
(***************************************************************************)
\* The bodies that carry field f, with a value of vals, or do not carry it.
Field(f, vals) == {Empty} \cup {f :> v : v \in vals}

CanCreate == nextId <= MaxDocs

Ids == 1..MaxDocs

(***************************************************************************)
(* The workout API.                                                        *)
(***************************************************************************)
RegisterBodies == {[weight |-> w, height |-> 170] : w \in {60, 80}}

WorkoutTypes == {"running", "yoga", "rowing"}
WorkoutIntensities == {"6 mph", "hatha"}
WorkoutDurations == {30, 45, 500}

PostWorkoutBodies ==
  {[exerciseType |-> t, intensity |-> i, duration |-> d] :
     t \in WorkoutTypes, i \in WorkoutIntensities, d \in WorkoutDurations}

PutWorkoutBodies ==
  {a @@ b @@ c : a \in Field("exerciseType", {"running", "yoga"}),
                 b \in Field("intensity", WorkoutIntensities),
                 c \in Field("duration", {45})}

NextWorkout ==
  \/ \E u \in UserIds, body \in RegisterBodies : Register(u, body)
  \/ \E u \in UserIds, body \in PostWorkoutBodies :
       CanCreate /\ PostWorkoutCreate(u, body)
  \/ \E h \in inflight : PostWorkoutSave(h)
  \/ \E u \in UserIds, id \in Ids, body \in PutWorkoutBodies : PutWorkout(u, id, body)
  \/ \E u \in UserIds, id \in Ids : DeleteWorkout(u, id)

SpecWorkout == Init /\ [][NextWorkout]_vars

(***************************************************************************)
(* models/Meal.js                                                          *)
(***************************************************************************)
NutrientFields == {"calories", "protein", "carbs", "fat", "fiber", "sugar"}

MealTypes == {"breakfast", "lunch", "dinner", "snack"}

\* foods.forEach(food => total += food[field] * food.quantity), in thousandths
RECURSIVE FoodSum(_, _)
FoodSum(foods, field) ==
  IF foods = <<>> THEN 0
  ELSE Head(foods)[field] * Head(foods).quantity + FoodSum(Tail(foods), field)

\* Math.round(total * 100) / 100, in hundredths
RoundTotal(thousandths) == Round(thousandths, 10)

\* meal.calculateTotals(), which the pre('save') hook calls on every save
calculateTotals(doc) ==
  [doc EXCEPT !.totalCalories = RoundTotal(FoodSum(doc.foods, "calories")),
              !.totalProtein = RoundTotal(FoodSum(doc.foods, "protein")),
              !.totalCarbs = RoundTotal(FoodSum(doc.foods, "carbs")),
              !.totalFat = RoundTotal(FoodSum(doc.foods, "fat")),
              !.totalFiber = RoundTotal(FoodSum(doc.foods, "fiber")),
              !.totalSugar = RoundTotal(FoodSum(doc.foods, "sugar"))]

\* The food subdocument's validators (quantity min 0.1, the others min 0)
FoodValid(food) ==
  /\ food.quantity >= 10
  /\ \A f \in NutrientFields : food[f] >= 0

(***************************************************************************)
(* routes/meals.js                                                         *)
(***************************************************************************)
\* express-validator's chain of POST /api/meals
PostMealValid(body) ==
  /\ Has(body, "mealType") /\ body.mealType \in MealTypes
  /\ Has(body, "foods") /\ Len(body.foods) >= 1
  /\ \A i \in 1..Len(body.foods) : FoodValid(body.foods[i])

\* express-validator's chain of PUT /api/meals/:id
PutMealValid(body) ==
  /\ Has(body, "mealType") => body.mealType \in MealTypes
  /\ Has(body, "foods") => Len(body.foods) >= 1

\* The schema's validators on the fields of an update
MealUpdateValid(body) ==
  /\ Has(body, "foods") => \A i \in 1..Len(body.foods) : FoodValid(body.foods[i])
  /\ Has(body, "user") => body.user \in UserIds

\* POST /api/meals: Meal.create runs the pre('save') hook, so the totals the
\* body carries are not read and the stored totals are those of the foods.
PostMeal(u, body) ==
  /\ u \in DOMAIN users
  /\ UNCHANGED <<users, workouts, sleeps, progress, inflight, now>>
  /\ IF ~PostMealValid(body)
     THEN /\ res' = Response("POST /api/meals", u, 400, 0, NoData)
          /\ UNCHANGED <<meals, nextId>>
     ELSE LET doc == calculateTotals(
                       [user |-> u,
                        mealType |-> body.mealType,
                        date |-> IF Has(body, "date") THEN body.date ELSE now,
                        foods |-> body.foods,
                        totalCalories |-> 0, totalProtein |-> 0, totalCarbs |-> 0,
                        totalFat |-> 0, totalFiber |-> 0, totalSugar |-> 0])
          IN /\ meals' = (nextId :> doc) @@ meals
             /\ nextId' = nextId + 1
             /\ res' = Response("POST /api/meals", u, 201, nextId, doc)

\* PUT /api/meals/:id: findOne({_id, user}), then findByIdAndUpdate(id, req.body),
\* which runs no save hook.
PutMeal(u, id, body) ==
  /\ u \in DOMAIN users
  /\ UNCHANGED <<users, workouts, sleeps, progress, inflight, nextId, now>>
  /\ IF ~PutMealValid(body)
     THEN /\ res' = Response("PUT /api/meals/:id", u, 400, id, NoData)
          /\ UNCHANGED meals
     ELSE IF id \notin Owned(meals, u)
     THEN /\ res' = Response("PUT /api/meals/:id", u, 404, id, NoData)
          /\ UNCHANGED meals
     ELSE IF ~MealUpdateValid(body)
     THEN /\ res' = Response("PUT /api/meals/:id", u, 500, id, NoData)
          /\ UNCHANGED meals
     ELSE /\ meals' = [meals EXCEPT ![id] = Merge(@, body)]
          /\ res' = Response("PUT /api/meals/:id", u, 200, id, Merge(meals[id], body))

\* DELETE /api/meals/:id
DeleteMeal(u, id) ==
  /\ u \in DOMAIN users
  /\ UNCHANGED <<users, workouts, sleeps, progress, inflight, nextId, now>>
  /\ IF id \notin Owned(meals, u)
     THEN /\ res' = Response("DELETE /api/meals/:id", u, 404, id, NoData)
          /\ UNCHANGED meals
     ELSE /\ meals' = Remove(meals, id)
          /\ res' = Response("DELETE /api/meals/:id", u, 200, id, NoData)

(***************************************************************************)
(* The meal API.                                                           *)
(***************************************************************************)
\* Food items (fields in tenths per unit, quantity in hundredths): 100 kcal
\* twice, 50 kcal once, 0.15 of an apple (52 kcal, 0.3 protein, 14 carbs, 0.2
\* fat, 2.4 fiber, 10.4 sugar); the POST bodies add an item of quantity 0.
Food(cal, pro, carb, fat, fib, sug, q) ==
  [calories |-> cal, protein |-> pro, carbs |-> carb, fat |-> fat,
   fiber |-> fib, sugar |-> sug, quantity |-> q]

FoodLists ==
  { <<Food(1000, 0, 0, 0, 0, 0, 200), Food(500, 10, 0, 0, 0, 0, 100)>>,
    <<Food(500, 10, 0, 0, 0, 0, 100)>>,
    <<Food(520, 3, 140, 2, 24, 104, 15)>> }

PostMealBodies ==
  {[mealType |-> "lunch", foods |-> fs] @@ t :
     fs \in FoodLists \cup {<<>>, <<Food(1000, 0, 0, 0, 0, 0, 0)>>},
     t \in Field("totalCalories", {99900})}

PutMealBodies ==
  {a @@ b @@ c : a \in Field("foods", FoodLists \cup {<<>>}),
                 b \in Field("totalCalories", {99900}),
                 c \in Field("mealType", {"dinner"})}

NextMeal ==
  \/ \E u \in UserIds, body \in RegisterBodies : Register(u, body)
  \/ \E u \in UserIds, body \in PostMealBodies : CanCreate /\ PostMeal(u, body)
  \/ \E u \in UserIds, id \in Ids, body \in PutMealBodies : PutMeal(u, id, body)
  \/ \E u \in UserIds, id \in Ids : DeleteMeal(u, id)

SpecMeal == Init /\ [][NextMeal]_vars

(***************************************************************************)
(* models/Sleep.js                                                         *)
(***************************************************************************)
SleepQualities == {"poor", "fair", "good", "excellent"}

\* The value sleep.calculateDuration() assigns to duration: an end before the
\* start is moved to the next day (setDate(getDate() + 1)); then
\* Math.round(durationMs / (1000 * 60)).
DurationOf(sleepStart, sleepEnd) ==
  LET endTime == IF sleepEnd < sleepStart THEN sleepEnd + Day ELSE sleepEnd
  IN Round(endTime - sleepStart, Minute)

\* sleep.calculateDuration(), which the pre('save') hook calls
calculateDuration(doc) ==
  [doc EXCEPT !.duration = DurationOf(doc.sleepStart, doc.sleepEnd)]

\* sleep.getQualityScore()
getQualityScore(doc) ==
  CASE doc.quality = "poor" -> 25
    [] doc.quality = "fair" -> 50
    [] doc.quality = "good" -> 75
    [] doc.quality = "excellent" -> 100
    [] OTHER -> 75

(***************************************************************************)
(* routes/sleep.js                                                         *)
(***************************************************************************)
\* express-validator's chain of POST /api/sleep
PostSleepValid(body) ==
  /\ Has(body, "sleepStart") /\ Has(body, "sleepEnd")
  /\ Has(body, "quality") => body.quality \in SleepQualities

\* express-validator's chain of PUT /api/sleep/:id
PutSleepValid(body) ==
  Has(body, "quality") => body.quality \in SleepQualities

\* The handlers' check: sleep end must be after sleep start. A PUT makes it
\* only when the body carries both times.
PostSleepTimesOk(body) == body.sleepEnd > body.sleepStart

PutSleepTimesOk(body) ==
  (Has(body, "sleepStart") /\ Has(body, "sleepEnd")) => body.sleepEnd > body.sleepStart

\* The schema's validators on the fields of an update
SleepUpdateValid(body) ==
  Has(body, "user") => body.user \in UserIds

\* POST /api/sleep: Sleep.create runs the pre('save') hook.
PostSleep(u, body) ==
  /\ u \in DOMAIN users
  /\ UNCHANGED <<users, workouts, meals, progress, inflight, now>>
  /\ IF ~PostSleepValid(body) \/ ~PostSleepTimesOk(body)
     THEN /\ res' = Response("POST /api/sleep", u, 400, 0, NoData)
          /\ UNCHANGED <<sleeps, nextId>>
     ELSE LET doc == calculateDuration(
                       [user |-> u,
                        sleepStart |-> body.sleepStart,
                        sleepEnd |-> body.sleepEnd,
                        date |-> IF Has(body, "date") THEN body.date ELSE now,
                        duration |-> 0,
                        quality |-> IF Has(body, "quality") THEN body.quality
                                                             ELSE "good"])
          IN /\ sleeps' = (nextId :> doc) @@ sleeps
             /\ nextId' = nextId + 1
             /\ res' = Response("POST /api/sleep", u, 201, nextId, doc)

\* PUT /api/sleep/:id: findOne({_id, user}), the check of the times, then
\* findByIdAndUpdate(id, req.body), which runs no save hook.
PutSleep(u, id, body) ==
  /\ u \in DOMAIN users
  /\ UNCHANGED <<users, workouts, meals, progress, inflight, nextId, now>>
  /\ IF ~PutSleepValid(body)
     THEN /\ res' = Response("PUT /api/sleep/:id", u, 400, id, NoData)
          /\ UNCHANGED sleeps
     ELSE IF id \notin Owned(sleeps, u)
     THEN /\ res' = Response("PUT /api/sleep/:id", u, 404, id, NoData)
          /\ UNCHANGED sleeps
     ELSE IF ~PutSleepTimesOk(body)
     THEN /\ res' = Response("PUT /api/sleep/:id", u, 400, id, NoData)
          /\ UNCHANGED sleeps
     ELSE IF ~SleepUpdateValid(body)
     THEN /\ res' = Response("PUT /api/sleep/:id", u, 500, id, NoData)
          /\ UNCHANGED sleeps
     ELSE /\ sleeps' = [sleeps EXCEPT ![id] = Merge(@, body)]
          /\ res' = Response("PUT /api/sleep/:id", u, 200, id, Merge(sleeps[id], body))

\* DELETE /api/sleep/:id
DeleteSleep(u, id) ==
  /\ u \in DOMAIN users
  /\ UNCHANGED <<users, workouts, meals, progress, inflight, nextId, now>>
  /\ IF id \notin Owned(sleeps, u)
     THEN /\ res' = Response("DELETE /api/sleep/:id", u, 404, id, NoData)
          /\ UNCHANGED sleeps
     ELSE /\ sleeps' = Remove(sleeps, id)
          /\ res' = Response("DELETE /api/sleep/:id", u, 200, id, NoData)

(***************************************************************************)
(* The sleep API.                                                          *)
(***************************************************************************)
\* Bed times 22:00 and 23:00 of day 0; wake times 06:00 of day 0 (before the bed
\* time), 06:00, 06:00:30 and 07:00 of day 1.
BedTimes == {22 * 3600, 23 * 3600}
WakeTimes == {6 * 3600, Day + 6 * 3600, Day + 6 * 3600 + 30, Day + 7 * 3600}

PostSleepBodies ==
  {[sleepStart |-> a, sleepEnd |-> b] @@ q :
     a \in BedTimes, b \in WakeTimes, q \in Field("quality", {"poor", "deep"})}

NextSleep ==
  \/ \E u \in UserIds, body \in RegisterBodies : Register(u, body)
  \/ \E u \in UserIds, body \in PostSleepBodies : CanCreate /\ PostSleep(u, body)
  \/ \E u \in UserIds, id \in Ids, a \in Field("sleepStart", BedTimes),
         b \in Field("sleepEnd", WakeTimes), q \in Field("quality", {"fair"}) :
       PutSleep(u, id, a @@ b @@ q)
  \/ \E u \in UserIds, id \in Ids : DeleteSleep(u, id)

SpecSleep == Init /\ [][NextSleep]_vars

(***************************************************************************)
(* models/Progress.js                                                      *)
(***************************************************************************)
\* weight / (heightInMeters * heightInMeters) with heightInMeters = height /
\* 100, as progress.calculateBMI() and POST /api/progress/calculate-bmi both
\* compute it, for a weight in tenths of a kilogram: the double that results, as
\* the exact quotient num / den it stands for. Where that quotient lies exactly
\* halfway between two tenths, the double lies at it or on either side of it,
\* depending on how the three operations round; below tells whether it lies
\* below.
bmiDouble(weight, height) ==
  LET num == weight * 1000
      den == height * height
      halfway == (20 * num) % den = 0 /\ (10 * num) % den # 0
  IN {[num |-> num, den |-> den, below |-> b] :
        b \in (IF halfway THEN BOOLEAN ELSE {FALSE})}

\* bmi.toFixed(1), in tenths: the tenth nearest to the double itself
toFixed(bmi) ==
  IF bmi.below THEN (10 * bmi.num) \div bmi.den ELSE Round(10 * bmi.num, bmi.den)

\* progress.calculateBMI(): Math.round(bmi * 10) / 10, in tenths, every value it
\* can resolve to. The product bmi * 10 is rounded to a double before
\* Math.round sees it: of a double just below the halfway point it is the
\* halfway point itself or a double below it.
calculateBMI(bmi) ==
  {Round(10 * bmi.num, bmi.den)}
    \cup (IF bmi.below THEN {(10 * bmi.num) \div bmi.den} ELSE {})

\* getBMICategory() with the thresholds themselves in no range
getBMICategoryStrict(bmi) ==
  IF bmi < 185 THEN "Underweight"
  ELSE IF bmi > 185 /\ bmi < 250 THEN "Normal weight"
  ELSE IF bmi > 250 /\ bmi < 300 THEN "Overweight"
  ELSE "Obese"

\* The category progress.getBMICategory() resolves to, for a BMI in tenths
getBMICategory(bmi) ==
  IF bmi < 185 THEN "Underweight"
  ELSE IF bmi >= 185 /\ bmi < 250 THEN "Normal weight"
  ELSE IF bmi >= 250 /\ bmi < 300 THEN "Overweight"
  ELSE "Obese"

(***************************************************************************)
(* routes/progress.js                                                      *)
(***************************************************************************)
\* express-validator's chain of POST /api/progress
PostProgressValid(body) ==
  Has(body, "weight") /\ body.weight \in 20..300

\* express-validator's chain of PUT /api/progress/:id
PutProgressValid(body) ==
  Has(body, "weight") => body.weight \in 20..300

\* The schema's validators on the fields of an update
ProgressUpdateValid(body) ==
  Has(body, "user") => body.user \in UserIds

\* POST /api/progress: Progress.create, then getBMICategory() for the response
PostProgress(u, body) ==
  /\ u \in DOMAIN users
  /\ UNCHANGED <<users, workouts, meals, sleeps, inflight, now>>
  /\ IF ~PostProgressValid(body)
     THEN /\ res' = Response("POST /api/progress", u, 400, 0, NoData)
          /\ UNCHANGED <<progress, nextId>>
     ELSE LET doc == [user |-> u,
                      date |-> IF Has(body, "date") THEN body.date ELSE now,
                      weight |-> body.weight]
          IN /\ progress' = (nextId :> doc) @@ progress
             /\ nextId' = nextId + 1
             /\ \E x \in bmiDouble(10 * doc.weight, users[u].height) :
                  \E bmi \in calculateBMI(x) :
                    res' = Response("POST /api/progress", u, 201, nextId,
                                    [doc |-> doc, bmi |-> bmi,
                                     bmiCategory |-> getBMICategory(bmi)])

\* POST /api/progress/calculate-bmi: the validation, bmi = (weight / (height /
\* 100)^2).toFixed(1) and the category of it. The body's weight is in tenths of
\* a kilogram here, its height in centimetres; the response's bmi is in tenths.
CalculateBmi(u, body) ==
  /\ u \in DOMAIN users
  /\ UNCHANGED <<users, workouts, meals, sleeps, progress, inflight, nextId, now>>
  /\ IF ~(/\ Has(body, "weight") /\ body.weight \in 200..3000
          /\ Has(body, "height") /\ body.height \in 100..250)
     THEN res' = Response("POST /api/progress/calculate-bmi", u, 400, 0, NoData)
     ELSE \E x \in bmiDouble(body.weight, body.height) :
            LET bmi == toFixed(x)
                category == IF bmi < 185 THEN "Underweight"
                            ELSE IF bmi >= 185 /\ bmi < 250 THEN "Normal weight"
                            ELSE IF bmi >= 250 /\ bmi < 300 THEN "Overweight"
                            ELSE "Obese"
            IN res' = Response("POST /api/progress/calculate-bmi", u, 200, 0,
                               [bmi |-> bmi, category |-> category,
                                weight |-> body.weight, height |-> body.height])

\* PUT /api/progress/:id: findOne({_id, user}), then findByIdAndUpdate(id, req.body).
\* (The bmi and bmiCategory the response adds are left out of the response data.)
PutProgress(u, id, body) ==
  /\ u \in DOMAIN users
  /\ UNCHANGED <<users, workouts, meals, sleeps, inflight, nextId, now>>
  /\ IF ~PutProgressValid(body)
     THEN /\ res' = Response("PUT /api/progress/:id", u, 400, id, NoData)
          /\ UNCHANGED progress
     ELSE IF id \notin Owned(progress, u)
     THEN /\ res' = Response("PUT /api/progress/:id", u, 404, id, NoData)
          /\ UNCHANGED progress
     ELSE IF ~ProgressUpdateValid(body)
     THEN /\ res' = Response("PUT /api/progress/:id", u, 500, id, NoData)
          /\ UNCHANGED progress
     ELSE /\ progress' = [progress EXCEPT ![id] = Merge(@, body)]
          /\ res' = Response("PUT /api/progress/:id", u, 200, id,
                             Merge(progress[id], body))

\* DELETE /api/progress/:id
DeleteProgress(u, id) ==
  /\ u \in DOMAIN users
  /\ UNCHANGED <<users, workouts, meals, sleeps, inflight, nextId, now>>
  /\ IF id \notin Owned(progress, u)
     THEN /\ res' = Response("DELETE /api/progress/:id", u, 404, id, NoData)
          /\ UNCHANGED progress
     ELSE /\ progress' = Remove(progress, id)
          /\ res' = Response("DELETE /api/progress/:id", u, 200, id, NoData)

(***************************************************************************)
(* Dates: the Date methods the handlers use, for instants of the year 1970 *)
(* (365 days; the year before has 365 days as well).                       *)
(***************************************************************************)
DayIndex(t) == t \div Day

\* setHours(0, 0, 0, 0)
startOfDay(t) == DayIndex(t) * Day

\* setHours(23, 59, 59, 999): the last whole second of the day
endOfDay(t) == startOfDay(t) + Day - 1

\* getDay(): 0 is Sunday
getDay(t) == (DayIndex(t) + 4) % 7

\* A week that starts on Monday
startOfWeekMonday(t) == startOfDay(t) - ((getDay(t) + 6) % 7) * Day

\* setDate(getDate() - getDay()); setHours(0, 0, 0, 0)
startOfWeek(t) == startOfDay(t) - getDay(t) * Day

DaysInMonth == <<31, 28, 31, 30, 31, 30, 31, 31, 30, 31, 30, 31>>

\* The day of the year on which month m starts
RECURSIVE MonthStartDay(_)
MonthStartDay(m) == IF m = 1 THEN 0 ELSE MonthStartDay(m - 1) + DaysInMonth[m - 1]

\* getMonth() + 1
getMonth(t) ==
  CHOOSE m \in 1..12 : /\ MonthStartDay(m) <= DayIndex(t)
                       /\ DayIndex(t) < MonthStartDay(m) + DaysInMonth[m]

\* new Date(getFullYear(), getMonth(), 1)
startOfMonth(t) == MonthStartDay(getMonth(t)) * Day

\* setMonth(getMonth() - 1): the same day of the month before, a day past its end
\* rolling over, which is the instant one length of that month earlier
MonthBefore(t) ==
  t - DaysInMonth[IF getMonth(t) = 1 THEN 12 ELSE getMonth(t) - 1] * Day

\* setFullYear(getFullYear() - 1)
YearBefore(t) == t - 365 * Day

\* The switch (period) of the statistics handlers; dflt is what its default
\* branch does.
PeriodStart(period, dflt, t) ==
  LET p == IF period \in {"week", "month", "year"} THEN period ELSE dflt
  IN CASE p = "week" -> t - 7 * Day
       [] p = "month" -> MonthBefore(t)
       [] p = "year" -> YearBefore(t)

(***************************************************************************)
(* Queries.                                                                *)
(***************************************************************************)
\* find({user, date: {$lte: to}}): the query without the lower bound
FindUpTo(coll, u, from, to) == {i \in Owned(coll, u) : coll[i].date <= to}

\* find({user, date: {$gte: from, $lte: to}})
Find(coll, u, from, to) ==
  {i \in Owned(coll, u) : coll[i].date >= from /\ coll[i].date <= to}

\* find({user, date: {$gte: from}})
FindFrom(coll, u, from) == {i \in Owned(coll, u) : coll[i].date >= from}

\* The sum of the values of a function with a finite domain
RECURSIVE SumOf(_)
SumOf(f) ==
  IF DOMAIN f = {} THEN 0
  ELSE LET i == CHOOSE i \in DOMAIN f : TRUE
       IN f[i] + SumOf([j \in DOMAIN f \ {i} |-> f[j]])

Max(S) == CHOOSE x \in S : \A y \in S : y <= x
Min(S) == CHOOSE x \in S : \A y \in S : x <= y

\* sort({date: dir}): the ids in the order of their dates, dir = 1 ascending and
\* dir = -1 descending. The order of documents of one date is not specified by
\* MongoDB; tie selects one of two orders.
RECURSIVE sortByDate(_, _, _, _)
sortByDate(coll, ids, dir, tie) ==
  IF ids = {} THEN <<>>
  ELSE LET first == {i \in ids : \A j \in ids : dir * coll[i].date <= dir * coll[j].date}
           i == IF tie THEN Max(first) ELSE Min(first)
       IN <<i>> \o sortByDate(coll, ids \ {i}, dir, tie)

\* limit(n)
Limit(seq, n) == SubSeq(seq, 1, IF Len(seq) < n THEN Len(seq) ELSE n)

\* An exact quotient, as a $avg yields it
Ratio(n, d) == [num |-> n, den |-> d]

\* toISOString().split('T')[0]: the calendar day of the instant in UTC, as the
\* number of the day since the epoch
toISODate(t) == DayIndex(t)

\* (n / d).toFixed(1), in tenths
toFixed1(n, d) == Round(10 * n, d)

\* list.reduce((acc, x) => { acc[x[field]] = (acc[x[field]] || 0) + 1 }, {}):
\* the object's keys in the order of their insertion, which is the order in
\* which JSON.stringify writes them, each with its count
RECURSIVE countBy(_, _, _)
countBy(coll, list, field) ==
  IF list = <<>> THEN <<>>
  ELSE LET acc == countBy(coll, SubSeq(list, 1, Len(list) - 1), field)
           key == coll[list[Len(list)]][field]
       IN IF \E k \in 1..Len(acc) : acc[k].key = key
          THEN [k \in 1..Len(acc) |->
                  IF acc[k].key = key THEN [acc[k] EXCEPT !.count = @ + 1] ELSE acc[k]]
          ELSE Append(acc, [key |-> key, count |-> 1])

\* aggregate([{$group: {_id: '$field', count: {$sum: 1}}}, {$sort: {count: -1}}])
\* over the documents ids: every order of the groups the pipeline can yield.
\* Neither $group nor $sort specifies the order of groups of equal count.
\* (Left out: the sums and averages each group carries besides its count.)
groupByCount(coll, ids, field) ==
  LET keys == {coll[i][field] : i \in ids}
      count(key) == Cardinality({i \in ids : coll[i][field] = key})
      n == Cardinality(keys)
  IN {[k \in 1..n |-> [key |-> f[k], count |-> count(f[k])]] :
        f \in {g \in [1..n -> keys] :
                 /\ \A a, b \in 1..n : a # b => g[a] # g[b]
                 /\ \A a \in 1..(n - 1) : count(g[a]) >= count(g[a + 1])}}

(***************************************************************************)
(* routes/dashboard.js: GET /api/dashboard                                 *)
(***************************************************************************)
\* The workouts part of dailySummary and weeklySummary, of the fetched
\* workouts ids of coll
WorkoutSummary(coll, ids) ==
  LET n == Cardinality(ids)
      duration == SumOf([i \in ids |-> coll[i].duration])
  IN [count |-> n,
      totalDuration |-> duration,
      totalCalories |-> SumOf([i \in ids |-> coll[i].caloriesBurned]),
      averageDuration |-> IF n > 0 THEN Round(duration, n) ELSE 0]

\* The meals part
MealSummary(coll, ids) ==
  [count |-> Cardinality(ids),
   totalCalories |-> SumOf([i \in ids |-> coll[i].totalCalories]),
   totalProtein |-> SumOf([i \in ids |-> coll[i].totalProtein]),
   totalCarbs |-> SumOf([i \in ids |-> coll[i].totalCarbs]),
   totalFat |-> SumOf([i \in ids |-> coll[i].totalFat])]

\* The sleep part
SleepSummary(coll, ids) ==
  LET n == Cardinality(ids)
      duration == SumOf([i \in ids |-> coll[i].duration])
  IN [count |-> n,
      totalDuration |-> duration,
      averageDuration |-> IF n > 0 THEN Round(duration, n) ELSE 0,
      averageQuality |->
        IF n > 0 THEN Round(SumOf([i \in ids |-> getQualityScore(coll[i])]), n)
        ELSE 0]

\* The goalProgress of the response: Math.abs((target - current) / (weight -
\* target) * 100) as an exact quotient, and null where the division yields NaN
\* or Infinity, which JSON.stringify writes as null.
GoalNull == [isNull |-> TRUE, num |-> 0, den |-> 1]
GoalNum(n, d) == [isNull |-> FALSE, num |-> n, den |-> d]

goalProgress(user, currentWeight) ==
  IF user.targetWeight = 0 THEN GoalNum(0, 1)
  ELSE IF user.weight - user.targetWeight = 0 THEN GoalNull
  ELSE GoalNum(Abs((user.targetWeight - currentWeight) * 100),
               Abs(user.weight - user.targetWeight))

\* The eight queries the handler hands to Promise.all, by the names their
\* results get, and the collections as the queries find them when all of them
\* run at once
ReadNow ==
  [dailyWorkouts |-> workouts, dailyMeals |-> meals, dailySleep |-> sleeps,
   weeklyWorkouts |-> workouts, weeklyMeals |-> meals, weeklySleep |-> sleeps,
   monthlyProgress |-> progress, recentProgress |-> progress]

\* The data of the response of GET /api/dashboard for user u and target date
\* targetDate, computed from the results of the eight queries: read[f] is the
\* collection as query f found it, and clock is what Date.now() returned when
\* the queries were built. Meal calories are in hundredths, so calorieBalance
\* is. The server's time zone is offset seconds east of UTC: its wall clock
\* reads t + offset at the instant t, so setHours, getDay, setDate and new
\* Date(year, month, 1), which work on local time, do on t + offset what they
\* do in UTC on t, while toISOString() writes the instant in UTC. (Left out: the
\* user block, calorieNeeds and the record lists.)
DashboardIn(u, targetDate, tie, clock, read, offset) ==
  LET dayStart(t) == startOfDay(t + offset) - offset
      dayEnd(t) == endOfDay(t + offset) - offset
      weekStart == startOfWeek(targetDate + offset) - offset
      dailyWorkouts ==
        Find(read.dailyWorkouts, u, dayStart(targetDate), dayEnd(targetDate))
      dailyMeals == Find(read.dailyMeals, u, dayStart(targetDate), dayEnd(targetDate))
      dailySleep == Find(read.dailySleep, u, dayStart(targetDate), dayEnd(targetDate))
      weeklyWorkouts == FindFrom(read.weeklyWorkouts, u, weekStart)
      weeklyMeals == FindFrom(read.weeklyMeals, u, weekStart)
      weeklySleep == FindFrom(read.weeklySleep, u, weekStart)
      monthlyProgress ==
        FindFrom(read.monthlyProgress, u, startOfMonth(targetDate + offset) - offset)
      recent == read.recentProgress
      recentProgress ==
        Limit(sortByDate(recent, FindFrom(recent, u, clock - 30 * Day), -1, tie), 10)
      n == Len(recentProgress)
      currentWeight == IF n > 0 THEN recent[recentProgress[1]].weight
                       ELSE users[u].weight
      dailySummary == [workouts |-> WorkoutSummary(read.dailyWorkouts, dailyWorkouts),
                       meals |-> MealSummary(read.dailyMeals, dailyMeals),
                       sleep |-> SleepSummary(read.dailySleep, dailySleep)]
  IN [date |-> targetDate,
      daily |-> [summary |-> dailySummary,
                 calorieBalance |-> dailySummary.meals.totalCalories
                                      - 100 * dailySummary.workouts.totalCalories],
      weekly |-> [summary |->
                    [workouts |-> WorkoutSummary(read.weeklyWorkouts, weeklyWorkouts),
                     meals |-> MealSummary(read.weeklyMeals, weeklyMeals),
                     sleep |-> SleepSummary(read.weeklySleep, weeklySleep)],
                  exerciseBreakdown |->
                    countBy(read.weeklyWorkouts,
                            sortByDate(read.weeklyWorkouts, weeklyWorkouts, -1, tie),
                            "exerciseType"),
                  mealTypeBreakdown |->
                    countBy(read.weeklyMeals,
                            sortByDate(read.weeklyMeals, weeklyMeals, -1, tie),
                            "mealType")],
      progress |->
        [currentWeight |-> currentWeight,
         weightChange |-> IF n > 1 THEN recent[recentProgress[1]].weight
                                          - recent[recentProgress[n]].weight
                          ELSE 0,
         monthlyEntries |-> Cardinality(monthlyProgress),
         currentBMI |-> IF n > 0
                        THEN JNum(toFixed1(recent[recentProgress[1]].weight * 10000,
                                           users[u].height * users[u].height))
                        ELSE JNull,
         goalProgress |-> goalProgress(users[u], currentWeight)],
      charts |->
        [weightTrend |-> [k \in 1..n |->
                            [date |-> recent[recentProgress[k]].date,
                             weight |-> recent[recentProgress[k]].weight]],
         weeklyCalories |->
           [k \in 1..7 |->
              LET day == weekStart + (k - 1) * Day
                  dayMeals == {i \in weeklyMeals :
                                 /\ read.weeklyMeals[i].date >= dayStart(day)
                                 /\ read.weeklyMeals[i].date <= dayEnd(day)}
                  dayWorkouts == {i \in weeklyWorkouts :
                                    /\ read.weeklyWorkouts[i].date >= dayStart(day)
                                    /\ read.weeklyWorkouts[i].date <= dayEnd(day)}
              IN [date |-> toISODate(day),
                  intake |-> SumOf([i \in dayMeals |-> read.weeklyMeals[i].totalCalories]),
                  burned |-> SumOf([i \in dayWorkouts |->
                                      read.weeklyWorkouts[i].caloriesBurned])]]]]

\* The same on a server whose time zone is UTC
DashboardFrom(u, targetDate, tie, clock, read) ==
  DashboardIn(u, targetDate, tie, clock, read, 0)

\* The same when nothing happens between the request and the response
DashboardData(u, targetDate, tie) == DashboardFrom(u, targetDate, tie, now, ReadNow)

(***************************************************************************)
(* The statistics handlers.                                                *)
(***************************************************************************)
\* The $group of GET /api/workouts/stats/summary, or the handler's fallback
WorkoutStats(u, period) ==
  LET ids == FindFrom(workouts, u, PeriodStart(period, "week", now))
      n == Cardinality(ids)
      duration == SumOf([i \in ids |-> workouts[i].duration])
      calories == SumOf([i \in ids |-> workouts[i].caloriesBurned])
  IN IF n = 0
     THEN [totalWorkouts |-> 0, totalDuration |-> 0, totalCaloriesBurned |-> 0,
           averageDuration |-> Ratio(0, 1), averageCaloriesBurned |-> Ratio(0, 1)]
     ELSE [totalWorkouts |-> n, totalDuration |-> duration,
           totalCaloriesBurned |-> calories,
           averageDuration |-> Ratio(duration, n),
           averageCaloriesBurned |-> Ratio(calories, n)]

\* The $group of GET /api/meals/nutrition/stats, or the handler's fallback
MealStats(u, period) ==
  LET ids == FindFrom(meals, u, PeriodStart(period, "week", now))
      n == Cardinality(ids)
      total(f) == SumOf([i \in ids |-> meals[i][f]])
  IN IF n = 0
     THEN [totalMeals |-> 0,
           averageCalories |-> Ratio(0, 1), averageProtein |-> Ratio(0, 1),
           averageCarbs |-> Ratio(0, 1), averageFat |-> Ratio(0, 1),
           totalCalories |-> 0, totalProtein |-> 0, totalCarbs |-> 0, totalFat |-> 0]
     ELSE [totalMeals |-> n,
           averageCalories |-> Ratio(total("totalCalories"), n),
           averageProtein |-> Ratio(total("totalProtein"), n),
           averageCarbs |-> Ratio(total("totalCarbs"), n),
           averageFat |-> Ratio(total("totalFat"), n),
           totalCalories |-> total("totalCalories"),
           totalProtein |-> total("totalProtein"),
           totalCarbs |-> total("totalCarbs"),
           totalFat |-> total("totalFat")]

\* Meal.getDailyNutrition(userId, date), or the fallback of GET /api/meals/nutrition/daily
getDailyNutrition(u, date) ==
  LET ids == Find(meals, u, startOfDay(date), endOfDay(date))
      total(f) == SumOf([i \in ids |-> meals[i][f]])
  IN [totalCalories |-> total("totalCalories"), totalProtein |-> total("totalProtein"),
      totalCarbs |-> total("totalCarbs"), totalFat |-> total("totalFat"),
      totalFiber |-> total("totalFiber"), totalSugar |-> total("totalSugar"),
      mealCount |-> Cardinality(ids)]

\* The $group over sleep records with the $switch on quality, or the fallback
SleepGroup(ids) ==
  LET n == Cardinality(ids)
      duration == SumOf([i \in ids |-> sleeps[i].duration])
      quality == SumOf([i \in ids |-> getQualityScore(sleeps[i])])
  IN IF n = 0
     THEN [records |-> 0, averageDuration |-> Ratio(0, 1), totalSleepTime |-> 0,
           averageQuality |-> Ratio(0, 1)]
     ELSE [records |-> n, averageDuration |-> Ratio(duration, n),
           totalSleepTime |-> duration, averageQuality |-> Ratio(quality, n)]

\* GET /api/sleep/stats/summary (records is its totalSleepRecords)
SleepStats(u, period) ==
  SleepGroup(FindFrom(sleeps, u, PeriodStart(period, "week", now)))

\* Sleep.getWeeklySummary(userId, weekStart) for GET /api/sleep/stats/weekly
\* (records is its sleepDays): weekStart keeps the time of day of the start date.
getWeeklySummary(u, startDate) ==
  LET weekStart == startDate - getDay(startDate) * Day
  IN SleepGroup({i \in Owned(sleeps, u) :
                   sleeps[i].date >= weekStart /\ sleeps[i].date < weekStart + 7 * Day})

\* The weight fields of a $sort by date and $group with $first and $last, or
\* the fallback (the body fat and muscle mass fields are left out)
ProgressGroup(ids, tie) ==
  LET seq == sortByDate(progress, ids, 1, tie)
      n == Len(seq)
      sum == SumOf([i \in ids |-> progress[i].weight])
  IN IF n = 0
     THEN [currentWeight |-> 0, startingWeight |-> 0, weightChange |-> 0,
           averageWeight |-> Ratio(0, 1), totalEntries |-> 0]
     ELSE [currentWeight |-> progress[seq[n]].weight,
           startingWeight |-> progress[seq[1]].weight,
           weightChange |-> progress[seq[n]].weight - progress[seq[1]].weight,
           averageWeight |-> Ratio(sum, n), totalEntries |-> n]

\* Progress.getProgressSummary(userId, days) for GET /api/progress/summary
getProgressSummary(u, days, tie) ==
  ProgressGroup(FindFrom(progress, u, now - days * Day), tie)

\* Progress.getWeightProgress(userId, days) for GET /api/progress/weight/trends
getWeightProgress(u, days, tie) ==
  LET seq == sortByDate(progress, FindFrom(progress, u, now - days * Day), 1, tie)
  IN [k \in 1..Len(seq) |-> [date |-> progress[seq[k]].date,
                             weight |-> progress[seq[k]].weight]]

\* Sleep.getSleepTrends(userId, days) for GET /api/sleep/trends
getSleepTrends(u, days, tie) ==
  LET seq == sortByDate(sleeps, FindFrom(sleeps, u, now - days * Day), 1, tie)
  IN [k \in 1..Len(seq) |-> [date |-> sleeps[seq[k]].date,
                             duration |-> sleeps[seq[k]].duration,
                             quality |-> sleeps[seq[k]].quality]]

\* The data of GET /api/dashboard/stats
DashboardStats(u, period, tie) ==
  LET from == PeriodStart(period, "month", now)
      w == FindFrom(workouts, u, from)
      m == FindFrom(meals, u, from)
      wn == Cardinality(w)
      mn == Cardinality(m)
      duration == SumOf([i \in w |-> workouts[i].duration])
      burned == SumOf([i \in w |-> workouts[i].caloriesBurned])
      total(f) == SumOf([i \in m |-> meals[i][f]])
  IN [period |-> period,
      workouts |->
        IF wn = 0
        THEN [totalWorkouts |-> 0, totalDuration |-> 0, totalCalories |-> 0,
              averageDuration |-> Ratio(0, 1), averageCalories |-> Ratio(0, 1)]
        ELSE [totalWorkouts |-> wn, totalDuration |-> duration, totalCalories |-> burned,
              averageDuration |-> Ratio(duration, wn),
              averageCalories |-> Ratio(burned, wn)],
      meals |->
        IF mn = 0
        THEN [totalMeals |-> 0, totalCalories |-> 0, totalProtein |-> 0,
              totalCarbs |-> 0, totalFat |-> 0, averageCalories |-> Ratio(0, 1)]
        ELSE [totalMeals |-> mn, totalCalories |-> total("totalCalories"),
              totalProtein |-> total("totalProtein"), totalCarbs |-> total("totalCarbs"),
              totalFat |-> total("totalFat"),
              averageCalories |-> Ratio(total("totalCalories"), mn)],
      sleep |-> SleepGroup(FindFrom(sleeps, u, from)),
      progress |-> ProgressGroup(FindFrom(progress, u, from), tie)]

(***************************************************************************)
(* The routers: app.js mounts them on /api/workouts, /api/meals,           *)
(* /api/sleep, /api/progress and /api/dashboard. A router tries its routes *)
(* in the order of their registration.                                     *)
(***************************************************************************)
Route(method, path, private, handler) ==
  [method |-> method, path |-> path, private |-> private, handler |-> handler]

workoutRouter ==
  << Route("GET", <<>>, TRUE, "GET /api/workouts"),
     Route("GET", <<":id">>, TRUE, "GET /api/workouts/:id"),
     Route("POST", <<>>, TRUE, "POST /api/workouts"),
     Route("PUT", <<":id">>, TRUE, "PUT /api/workouts/:id"),
     Route("DELETE", <<":id">>, TRUE, "DELETE /api/workouts/:id"),
     Route("GET", <<"stats", "summary">>, TRUE, "GET /api/workouts/stats/summary"),
     Route("GET", <<"exercise-types">>, FALSE, "GET /api/workouts/exercise-types") >>

mealRouter ==
  << Route("GET", <<>>, TRUE, "GET /api/meals"),
     Route("GET", <<":id">>, TRUE, "GET /api/meals/:id"),
     Route("POST", <<>>, TRUE, "POST /api/meals"),
     Route("PUT", <<":id">>, TRUE, "PUT /api/meals/:id"),
     Route("DELETE", <<":id">>, TRUE, "DELETE /api/meals/:id"),
     Route("GET", <<"nutrition", "daily">>, TRUE, "GET /api/meals/nutrition/daily"),
     Route("GET", <<"nutrition", "stats">>, TRUE, "GET /api/meals/nutrition/stats"),
     Route("GET", <<"foods", "common">>, FALSE, "GET /api/meals/foods/common") >>

sleepRouter ==
  << Route("GET", <<>>, TRUE, "GET /api/sleep"),
     Route("GET", <<":id">>, TRUE, "GET /api/sleep/:id"),
     Route("POST", <<>>, TRUE, "POST /api/sleep"),
     Route("PUT", <<":id">>, TRUE, "PUT /api/sleep/:id"),
     Route("DELETE", <<":id">>, TRUE, "DELETE /api/sleep/:id"),
     Route("GET", <<"stats", "summary">>, TRUE, "GET /api/sleep/stats/summary"),
     Route("GET", <<"stats", "weekly">>, TRUE, "GET /api/sleep/stats/weekly"),
     Route("GET", <<"trends">>, TRUE, "GET /api/sleep/trends") >>

progressRouter ==
  << Route("GET", <<>>, TRUE, "GET /api/progress"),
     Route("GET", <<":id">>, TRUE, "GET /api/progress/:id"),
     Route("POST", <<>>, TRUE, "POST /api/progress"),
     Route("PUT", <<":id">>, TRUE, "PUT /api/progress/:id"),
     Route("DELETE", <<":id">>, TRUE, "DELETE /api/progress/:id"),
     Route("GET", <<"weight", "trends">>, TRUE, "GET /api/progress/weight/trends"),
     Route("GET", <<"summary">>, TRUE, "GET /api/progress/summary"),
     Route("GET", <<"measurements">>, TRUE, "GET /api/progress/measurements"),
     Route("POST", <<"calculate-bmi">>, TRUE, "POST /api/progress/calculate-bmi") >>

dashboardRouter ==
  << Route("GET", <<>>, TRUE, "GET /api/dashboard"),
     Route("GET", <<"stats">>, TRUE, "GET /api/dashboard/stats") >>

Routers ==
  [workouts |-> workoutRouter, meals |-> mealRouter, sleep |-> sleepRouter,
   progress |-> progressRouter, dashboard |-> dashboardRouter]

\* A route's path matches a request's path: segment by segment, a parameter
\* matching any segment.
Match(pattern, path) ==
  /\ Len(pattern) = Len(path)
  /\ \A i \in 1..Len(pattern) : pattern[i] = ":id" \/ pattern[i] = path[i]

NoRoute == Route("", <<>>, FALSE, "not found")

\* The first route of the router that matches the request
Dispatch(routes, method, path) ==
  LET hits == {i \in 1..Len(routes) :
                 routes[i].method = method /\ Match(routes[i].path, path)}
  IN IF hits = {} THEN NoRoute ELSE routes[Min(hits)]

\* The middleware of the private routes: the request carries the token of a
\* registered user ("" stands for a request without a token).
protect(u) == u \in DOMAIN users

\* The path segments that are ObjectIds, and the ids they are
IdOfSegment == "id1" :> 1 @@ "id2" :> 2

\* Strings of 12 characters: whether the cast to ObjectId takes them for 12
\* bytes or rejects them depends on the version of the driver.
TwelveCharacters == {"measurements"}

Outcome(status, data) == [status |-> status, data |-> data]

\* findOne({_id: req.params.id, user: req.user.id}) of a GET /:id handler, which
\* answers with data[id]: a segment that is no ObjectId makes the query throw a
\* CastError (500).
GetById(coll, u, segment, data) ==
  IF segment \in DOMAIN IdOfSegment
  THEN IF IdOfSegment[segment] \in Owned(coll, u)
       THEN {Outcome(200, data[IdOfSegment[segment]])}
       ELSE {Outcome(404, NoData)}
  ELSE {Outcome(500, NoData)}
         \cup (IF segment \in TwelveCharacters THEN {Outcome(404, NoData)} ELSE {})

\* GET / of a record router: the user's records of the date of the query, if
\* any, newest first, the first page of 10.
GetList(coll, u, query, tie) ==
  LET ids == IF Has(query, "date")
             THEN Find(coll, u, startOfDay(query.date), endOfDay(query.date))
             ELSE Owned(coll, u)
      page == Limit(sortByDate(coll, ids, -1, tie), 10)
  IN Outcome(200, [count |-> Len(page), total |-> Cardinality(ids),
                   data |-> [k \in 1..Len(page) |-> coll[page[k]]]])

\* mongoose.Types.ObjectId(userId), called without new by the statics
\* getDailyNutrition, getWeeklySummary, getProgressSummary and
\* getMeasurementProgress: it returns an ObjectId or throws a TypeError,
\* depending on the version of Mongoose, and the handler answers 500 then.
ObjectIdCall(outcome) == {outcome, Outcome(500, NoData)}

\* The fallback of GET /api/progress/measurements, which is what it answers as
\* long as no progress record carries measurements.
MeasurementFallback ==
  [f \in {"currentChest", "startingChest", "chestChange",
          "currentWaist", "startingWaist", "waistChange",
          "currentHips", "startingHips", "hipsChange",
          "currentArms", "startingArms", "armsChange",
          "currentThighs", "startingThighs", "thighsChange"} |-> 0]

\* What the handler of a route answers (of the common foods, the list's name)
Handle(handler, u, path, query) ==
  LET period(dflt) == IF Has(query, "period") THEN query.period ELSE dflt
      days == IF Has(query, "days") THEN query.days ELSE 30
      date == IF Has(query, "date") THEN query.date ELSE now
  IN CASE handler = "GET /api/workouts" ->
            {GetList(workouts, u, query, tie) : tie \in BOOLEAN}
       [] handler = "GET /api/meals" ->
            {GetList(meals, u, query, tie) : tie \in BOOLEAN}
       [] handler = "GET /api/sleep" ->
            {GetList(sleeps, u, query, tie) : tie \in BOOLEAN}
       [] handler = "GET /api/progress" ->
            {GetList(progress, u, query, tie) : tie \in BOOLEAN}
       [] handler = "GET /api/workouts/:id" ->
            GetById(workouts, u, path[1], workouts)
       [] handler = "GET /api/meals/:id" ->
            GetById(meals, u, path[1], meals)
       [] handler = "GET /api/sleep/:id" ->
            GetById(sleeps, u, path[1], sleeps)
       [] handler = "GET /api/progress/:id" ->
            LET bmis(id) == UNION {calculateBMI(x) :
                                     x \in bmiDouble(10 * progress[id].weight,
                                                     users[u].height)}
                data(bmi) == [id \in Owned(progress, u) |->
                                [doc |-> progress[id], bmi |-> bmi[id],
                                 bmiCategory |-> getBMICategory(bmi[id])]]
            IN UNION {GetById(progress, u, path[1], data(bmi)) :
                        bmi \in {b \in [Owned(progress, u) ->
                                          UNION {bmis(id) : id \in Owned(progress, u)}] :
                                   \A id \in Owned(progress, u) : b[id] \in bmis(id)}}
       [] handler = "GET /api/workouts/stats/summary" ->
            {Outcome(200, [summary |-> WorkoutStats(u, period("week")),
                           exerciseBreakdown |-> b,
                           period |-> period("week")]) :
               b \in groupByCount(workouts, FindFrom(workouts, u, PeriodStart(period("week"), "week", now)), "exerciseType")}
       [] handler = "GET /api/workouts/exercise-types" ->
            {Outcome(200, [exerciseTypes |->
                             [t \in DOMAIN MET_VALUES |-> getIntensities(t)]])}
       [] handler = "GET /api/meals/nutrition/daily" ->
            ObjectIdCall(Outcome(200, [date |-> date,
                                       nutrition |-> getDailyNutrition(u, date)]))
       [] handler = "GET /api/meals/nutrition/stats" ->
            {Outcome(200, [summary |-> MealStats(u, period("week")),
                           mealTypeBreakdown |-> b,
                           period |-> period("week")]) :
               b \in groupByCount(meals, FindFrom(meals, u, PeriodStart(period("week"), "week", now)), "mealType")}
       [] handler = "GET /api/meals/foods/common" ->
            {Outcome(200, [foods |-> "commonFoods"])}
       [] handler = "GET /api/sleep/stats/summary" ->
            {Outcome(200, [summary |-> SleepStats(u, period("week")),
                           qualityBreakdown |-> b,
                           period |-> period("week")]) :
               b \in groupByCount(sleeps, FindFrom(sleeps, u, PeriodStart(period("week"), "week", now)), "quality")}
       [] handler = "GET /api/sleep/stats/weekly" ->
            LET startDate == IF Has(query, "startDate") THEN query.startDate ELSE now
            IN ObjectIdCall(Outcome(200, [weekStart |-> startDate - getDay(startDate) * Day,
                                          summary |-> getWeeklySummary(u, startDate)]))
       [] handler = "GET /api/sleep/trends" ->
            {Outcome(200, [trends |-> getSleepTrends(u, days, tie)]) : tie \in BOOLEAN}
       [] handler = "GET /api/progress/weight/trends" ->
            {Outcome(200, [trends |-> getWeightProgress(u, days, tie)]) : tie \in BOOLEAN}
       [] handler = "GET /api/progress/summary" ->
            UNION {ObjectIdCall(Outcome(200, [summary |-> getProgressSummary(u, days, tie)])) :
                     tie \in BOOLEAN}
       [] handler = "GET /api/progress/measurements" ->
            ObjectIdCall(Outcome(200, [measurements |-> MeasurementFallback]))
       [] handler = "GET /api/dashboard" ->
            {Outcome(200, DashboardData(u, date, tie)) : tie \in BOOLEAN}
       [] handler = "GET /api/dashboard/stats" ->
            {Outcome(200, DashboardStats(u, period("month"), tie)) : tie \in BOOLEAN}

\* A GET request of user u ("" without a token) to a router: the route is
\* chosen, the private routes refuse a request without a user, and the handler
\* answers. Outside the routes the application answers 404.
Get(u, router, path, query) ==
  /\ UNCHANGED <<users, workouts, meals, sleeps, progress, inflight, nextId, now>>
  /\ LET route == Dispatch(Routers[router], "GET", path)
         request == [router |-> router, path |-> path]
         outcomes == IF route = NoRoute THEN {Outcome(404, NoData)}
                     ELSE IF route.private /\ ~protect(u) THEN {Outcome(401, NoData)}
                     ELSE Handle(route.handler, u, path, query)
     IN \E out \in outcomes :
          res' = [Response(route.handler, u, out.status, 0, out.data)
                    EXCEPT !.req = request]

\* Time passes.
Tick(d) ==
  /\ now' = now + d
  /\ UNCHANGED <<users, workouts, meals, sleeps, progress, inflight, nextId, res>>

(***************************************************************************)
(* GET /api/dashboard step by step: the handler builds the eight queries   *)
(* and waits at await Promise.all; each query settles on its own, with the *)
(* collection as it is then or with a rejection; the handler goes on when  *)
(* the promise of Promise.all settles. A request in flight is a member of  *)
(* inflight with id 0: doc.done holds the settled queries, doc.read the    *)
(* result of each (empty until it settles), doc.failed whether one was     *)
(* rejected.                                                               *)
(***************************************************************************)
DashboardDispatch(u, query) ==
  /\ protect(u)
  /\ \A h \in inflight : h.id # 0
  /\ inflight' = inflight \cup
       {[id |-> 0,
         doc |-> [user |-> u,
                  date |-> IF Has(query, "date") THEN query.date ELSE now,
                  clock |-> now,
                  done |-> {},
                  failed |-> FALSE,
                  read |-> [f \in DOMAIN ReadNow |-> Empty]]]}
  /\ res' = Response("GET /api/dashboard", u, 0, 0, NoData)
  /\ UNCHANGED <<users, workouts, meals, sleeps, progress, nextId, now>>

\* One query settles: fulfilled with what it finds (ok) or rejected.
FetchSettle(h, f, ok) ==
  /\ h \in inflight
  /\ h.id = 0
  /\ ~h.doc.failed
  /\ f \in DOMAIN ReadNow \ h.doc.done
  /\ inflight' = (inflight \ {h}) \cup
       {[h EXCEPT !.doc.done = @ \cup {f},
                  !.doc.failed = ~ok,
                  !.doc.read[f] = IF ok THEN ReadNow[f] ELSE @]}
  /\ UNCHANGED <<users, workouts, meals, sleeps, progress, nextId, now, res>>

\* Promise.race([...]) is settled as soon as one of the promises is.
PromiseRace(doc) == doc.failed \/ doc.done # {}

\* Promise.all([...]) is settled once a promise is rejected or all of them are
\* fulfilled.
PromiseAll(doc) == doc.failed \/ doc.done = DOMAIN ReadNow

\* The handler after the await: the computation and res.json, or the catch
\* block's 500.
DashboardRespond(h) ==
  /\ h \in inflight
  /\ h.id = 0
  /\ PromiseAll(h.doc)
  /\ inflight' = inflight \ {h}
  /\ \E tie \in BOOLEAN :
       res' = [Response("GET /api/dashboard", h.doc.user,
                        IF h.doc.failed THEN 500 ELSE 200, 0,
                        IF h.doc.failed THEN NoData
                        ELSE DashboardFrom(h.doc.user, h.doc.date, tie, h.doc.clock,
                                           h.doc.read))
                EXCEPT !.req = [router |-> "dashboard", path |-> <<>>]]
  /\ UNCHANGED <<users, workouts, meals, sleeps, progress, nextId, now>>

(***************************************************************************)
(* The four record kinds together: who may update and delete.              *)
(***************************************************************************)
OwnerRegisterBody == [weight |-> 80, height |-> 180]
OwnerWorkoutBody == [exerciseType |-> "running", intensity |-> "6 mph", duration |-> 30]
OwnerMealBody == [mealType |-> "lunch", foods |-> <<Food(500, 10, 0, 0, 0, 0, 100)>>]
OwnerSleepBody == [sleepStart |-> 23 * 3600, sleepEnd |-> Day + 6 * 3600]
OwnerProgressBody == [weight |-> 79]

\* The bodies of a PUT: one that changes a field, one that fails the request
\* validation, one that carries a user field.
OwnerPutWorkoutBodies == {[duration |-> 45], [duration |-> 500], [user |-> "u2"]}
OwnerPutMealBodies == {[mealType |-> "dinner"], [mealType |-> "brunch"], [user |-> "u2"]}
OwnerPutProgressBodies == {[weight |-> 78], [weight |-> 10], [user |-> "u2"]}

NextOwner ==
  \/ \E u \in UserIds : Register(u, OwnerRegisterBody)
  \/ \E u \in UserIds : CanCreate /\ PostWorkoutCreate(u, OwnerWorkoutBody)
  \/ \E h \in inflight : PostWorkoutSave(h)
  \/ \E u \in UserIds : CanCreate /\ PostMeal(u, OwnerMealBody)
  \/ \E u \in UserIds : CanCreate /\ PostSleep(u, OwnerSleepBody)
  \/ \E u \in UserIds : CanCreate /\ PostProgress(u, OwnerProgressBody)
  \/ \E u \in UserIds, id \in Ids, body \in OwnerPutWorkoutBodies : PutWorkout(u, id, body)
  \/ \E u \in UserIds, id \in Ids, body \in OwnerPutMealBodies : PutMeal(u, id, body)
  \/ \E u \in UserIds, id \in Ids,
         body \in {[quality |-> "fair"], [quality |-> "deep"], [user |-> "u2"]} :
       PutSleep(u, id, body)
  \/ \E u \in UserIds, id \in Ids, body \in OwnerPutProgressBodies : PutProgress(u, id, body)
  \/ \E u \in UserIds, id \in Ids : DeleteWorkout(u, id)
  \/ \E u \in UserIds, id \in Ids : DeleteMeal(u, id)
  \/ \E u \in UserIds, id \in Ids : DeleteSleep(u, id)
  \/ \E u \in UserIds, id \in Ids : DeleteProgress(u, id)

SpecOwner == Init /\ [][NextOwner]_vars

(***************************************************************************)
(* The GET endpoints.                                                      *)
(***************************************************************************)
\* The GET endpoints the README lists, as router and path below the mount
GetRequests ==
  {[router |-> "workouts", path |-> p] :
     p \in {<<>>, <<"id1">>, <<"stats", "summary">>, <<"exercise-types">>}}
  \cup {[router |-> "meals", path |-> p] :
     p \in {<<>>, <<"id1">>, <<"nutrition", "daily">>, <<"nutrition", "stats">>,
            <<"foods", "common">>}}
  \cup {[router |-> "sleep", path |-> p] :
     p \in {<<>>, <<"id1">>, <<"stats", "summary">>, <<"stats", "weekly">>, <<"trends">>}}
  \cup {[router |-> "progress", path |-> p] :
     p \in {<<>>, <<"id1">>, <<"weight", "trends">>, <<"summary">>, <<"measurements">>}}
  \cup {[router |-> "dashboard", path |-> p] : p \in {<<>>, <<"stats">>, <<"summary">>}}


NextGet ==
  \/ \E u \in UserIds : Register(u, OwnerRegisterBody)
  \/ \E u \in UserIds : CanCreate /\ PostWorkoutCreate(u, OwnerWorkoutBody)
  \/ \E h \in inflight : PostWorkoutSave(h)
  \/ \E u \in UserIds : CanCreate /\ PostMeal(u, OwnerMealBody)
  \/ \E u \in UserIds : CanCreate /\ PostSleep(u, OwnerSleepBody)
  \/ \E u \in UserIds : CanCreate /\ PostProgress(u, OwnerProgressBody)
  \/ now + 31 * Day <= MaxDays * Day /\ Tick(31 * Day)
  \/ \E u \in UserIds \cup {""}, r \in GetRequests, query \in {Empty, [period |-> "year"]} :
       Get(u, r.router, r.path, query)

SpecGet == Init /\ [][NextGet]_vars

(***************************************************************************)
(* The dashboard of a user with a profile and at most one progress record. *)
(***************************************************************************)
NextDash ==
  \/ \E u \in UserIds, t \in Field("targetWeight", {70, 80}) :
       Register(u, [weight |-> 80, height |-> 180] @@ t)
  \/ \E u \in UserIds, body \in {[weight |-> 70], [targetWeight |-> 80]} :
       UpdateProfile(u, body)
  \/ \E u \in UserIds, w \in {70, 75, 80} : CanCreate /\ PostProgress(u, [weight |-> w])
  \/ \E u \in UserIds, id \in Ids : DeleteProgress(u, id)
  \/ now + 31 * Day <= MaxDays * Day /\ Tick(31 * Day)
  \/ \E u \in UserIds : Get(u, "dashboard", <<>>, Empty)

SpecDash == Init /\ [][NextDash]_vars

(***************************************************************************)
(* The dashboard of a user who logs a weight a day, the last one on day 0. *)
(***************************************************************************)

NextTrend ==
  \/ Register("u1", OwnerRegisterBody)
  \/ \E w \in {70, 72} :
       /\ nextId <= MaxProgress
       /\ PostProgress("u1", [weight |-> w, date |-> (nextId - MaxProgress) * Day])
  \/ now + 10 * Day <= MaxDays * Day /\ Tick(10 * Day)
  \/ Get("u1", "dashboard", <<>>, Empty)

SpecTrend == Init /\ [][NextTrend]_vars

(***************************************************************************)
(* The dashboard of a week: meals and workouts dated around the week that  *)
(* starts on Sunday, 4 January 1970 (day 3), and dashboards for dates of   *)
(* that week and of the next.                                              *)
(***************************************************************************)
WeekRecordDates ==
  {3 * Day - 1, 3 * Day, 5 * Day + 12 * 3600, 10 * Day - 1, 10 * Day}

NextWeek ==
  \/ \E u \in UserIds : Register(u, OwnerRegisterBody)
  \/ \E u \in UserIds, d \in WeekRecordDates :
       CanCreate /\ PostWorkoutCreate(u, OwnerWorkoutBody @@ [date |-> d])
  \/ \E h \in inflight : PostWorkoutSave(h)
  \/ \E u \in UserIds, d \in WeekRecordDates :
       CanCreate /\ PostMeal(u, OwnerMealBody @@ [date |-> d])
  \/ \E u \in UserIds, d \in {3 * Day, 6 * Day + 12 * 3600, 10 * Day - 1, 10 * Day} :
       Get(u, "dashboard", <<>>, [date |-> d])
  \/ \E u \in UserIds : Get(u, "workouts", <<"stats", "summary">>, Empty)
  \/ \E u \in UserIds : Get(u, "dashboard", <<"stats">>, Empty)

SpecWeek == Init /\ [][NextWeek]_vars

(***************************************************************************)
(* Several records of one user in one week, of two categories each: what   *)
(* the breakdowns by category look like. Record k is dated on the k-th of  *)
(* the MaxRecords days before the clock's instant. Two of the workouts     *)
(* asked for have a pair of exercise type and intensity that the MET table *)
(* does not hold.                                                          *)
(***************************************************************************)
MaxRecords == 3

NextBreakdown ==
  \/ Register("u1", OwnerRegisterBody)
  \/ \E body \in {OwnerWorkoutBody,
                    [exerciseType |-> "yoga", intensity |-> "hatha", duration |-> 30],
                    [exerciseType |-> "running", intensity |-> "hatha", duration |-> 30],
                    [exerciseType |-> "rowing", intensity |-> "6 mph", duration |-> 30]} :
       /\ nextId <= MaxRecords
       /\ PostWorkoutCreate("u1", body @@ [date |-> (nextId - 1 - MaxRecords) * Day])
  \/ \E h \in inflight : PostWorkoutSave(h)
  \/ \E body \in {[OwnerMealBody EXCEPT !.mealType = t] : t \in {"lunch", "dinner"}} :
       /\ nextId <= MaxRecords
       /\ PostMeal("u1", body @@ [date |-> (nextId - 1 - MaxRecords) * Day])
  \/ Get("u1", "dashboard", <<>>, Empty)
  \/ Get("u1", "workouts", <<"stats", "summary">>, Empty)
  \/ Get("u1", "meals", <<"nutrition", "stats">>, Empty)

SpecBreakdown == Init /\ [][NextBreakdown]_vars

(***************************************************************************)
(* The dashboard of one explicit date, asked for again as the clock moves  *)
(* on. The weight log's entries are dated on the MaxRecords days before    *)
(* the first instant, one a day.                                           *)
(***************************************************************************)
NextClock ==
  \/ Register("u1", OwnerRegisterBody)
  \/ \E w \in {70, 72} :
       /\ nextId <= MaxRecords
       /\ PostProgress("u1", [weight |-> w, date |-> (nextId - 1 - MaxRecords) * Day])
  \/ now + 10 * Day <= MaxDays * Day /\ Tick(10 * Day)
  \/ Get("u1", "dashboard", <<>>, [date |-> 0])

SpecClock == Init /\ [][NextClock]_vars

(***************************************************************************)
(* The dashboard's eight queries settling one by one, in any order, while  *)
(* a meal of the requested day may be logged in between.                   *)
(***************************************************************************)
NextFetch ==
  \/ Register("u1", OwnerRegisterBody)
  \/ CanCreate /\ PostMeal("u1", OwnerMealBody @@ [date |-> 0])
  \/ DashboardDispatch("u1", Empty)
  \/ \E h \in inflight, f \in DOMAIN ReadNow, ok \in BOOLEAN : FetchSettle(h, f, ok)
  \/ \E h \in inflight : DashboardRespond(h)

SpecFetch == Init /\ [][NextFetch]_vars

(***************************************************************************)
(* The figures of a body: the BMR of a user at registration, the BMI and   *)
(* its category as POST /api/progress/calculate-bmi and as the progress    *)
(* record's getBMICategory() give them. The weights of calculate-bmi are   *)
(* in tenths of a kilogram, with the weights on both sides of a threshold  *)
(* of the categories for the height of 200 cm.                             *)
(***************************************************************************)
BmiWeights == {200, 480, 737, 738, 739, 997, 998, 1000, 1198, 1200, 3000}

NextBody ==
  \/ \E g \in {"male", "female"}, w \in {48, 80}, h \in {160, 180} :
       Register("u1", [gender |-> g, age |-> 30, weight |-> w, height |-> h])
  \/ \E w \in BmiWeights, h \in {100, 160, 200, 250, 260} :
       CalculateBmi("u1", [weight |-> w, height |-> h])
  \/ \E w \in {48, 80} : CanCreate /\ PostProgress("u1", [weight |-> w])

SpecBody == Init /\ [][NextBody]_vars

(***************************************************************************)
(* The dashboard of one day: two users, workouts of 30 minutes dated on the *)
(* day before the clock's instant and of 45 minutes dated on its day,      *)
(* meals of its day, at most MaxRecords records in all, and the statistics *)
(* of the period that holds both days. The owner of record 1 may send a    *)
(* PUT that carries a caloriesBurned of its own.                           *)
(***************************************************************************)
NextDay ==
  \/ \E u \in UserIds : Register(u, OwnerRegisterBody)
  \/ \E body \in {OwnerWorkoutBody @@ [date |-> now - Day],
                    [OwnerWorkoutBody EXCEPT !.duration = 45] @@ [date |-> now]} :
       /\ nextId <= MaxRecords
       /\ PostWorkoutCreate("u1", body)
  \/ \E h \in inflight : PostWorkoutSave(h)
  \/ \E u \in UserIds :
       /\ nextId <= MaxRecords
       /\ PostMeal(u, OwnerMealBody @@ [date |-> now])
  \/ PutWorkout("u1", 1, [caloriesBurned |-> -500])
  \/ Get("u1", "dashboard", <<>>, Empty)
  \/ Get("u1", "dashboard", <<"stats">>, Empty)

SpecDay == Init /\ [][NextDay]_vars

(***************************************************************************)
(* calculateDuration() on its own: a sleep document built with new         *)
(* Sleep({...}) from any two instants, six hours apart from 0:00 of day 0  *)
(* to 18:00 of day MaxRecords - 1, and then saved. The document not yet    *)
(* saved is held in inflight.                                              *)
(***************************************************************************)
InitDuration ==
  /\ users = Empty
  /\ workouts = Empty
  /\ meals = Empty
  /\ sleeps = Empty
  /\ progress = Empty
  /\ \E a, b \in {k * 6 * 3600 : k \in 0..(4 * MaxRecords - 1)} :
       inflight = {[id |-> 1,
                    doc |-> [user |-> "u1", sleepStart |-> a, sleepEnd |-> b,
                             date |-> a, duration |-> 0, quality |-> "good"]]}
  /\ nextId = 2
  /\ now = 0
  /\ res = Response("start", "", 0, 0, NoData)

\* sleep.save(): the pre('save') hook sets the duration, then the document is
\* stored.
NextDuration ==
  \E h \in inflight :
    /\ sleeps' = (h.id :> calculateDuration(h.doc)) @@ sleeps
    /\ inflight' = inflight \ {h}
    /\ UNCHANGED <<users, workouts, meals, progress, nextId, now, res>>

SpecDuration == InitDuration /\ [][NextDuration]_vars

(***************************************************************************)
(* The dashboard on servers of several time zones: west of UTC (-5:00), in *)
(* UTC and east of it (+2:00, +5:30). The records are dated around the     *)
(* start and the end of Sunday, 4 January 1970 (day 3), in UTC, and on the *)
(* Wednesday after it.                                                     *)
(***************************************************************************)
\* GET /api/dashboard?date=... answered by a server whose time zone is offset
\* seconds east of UTC
GetDashboardIn(u, query, offset) ==
  /\ \E tie \in BOOLEAN :
       res' = [(IF ~protect(u) THEN Response("GET /api/dashboard", u, 401, 0, NoData)
                ELSE Response("GET /api/dashboard", u, 200, 0,
                              DashboardIn(u, query.date, tie, now, ReadNow, offset)))
                 EXCEPT !.req = [router |-> "dashboard", path |-> <<>>]]
  /\ UNCHANGED <<users, workouts, meals, sleeps, progress, inflight, nextId, now>>

NextZone ==
  \/ Register("u1", OwnerRegisterBody)
  \/ \E d \in {3 * Day - 3600, 3 * Day + 1800, 4 * Day - 1800, 6 * Day + 12 * 3600} :
       CanCreate /\ PostWorkoutCreate("u1", OwnerWorkoutBody @@ [date |-> d])
  \/ \E h \in inflight : PostWorkoutSave(h)
  \/ \E d \in {3 * Day - 3600, 3 * Day + 1800, 4 * Day - 1800, 6 * Day + 12 * 3600} :
       CanCreate /\ PostMeal("u1", OwnerMealBody @@ [date |-> d])
  \/ \E d \in {3 * Day + 3600, 5 * Day + 12 * 3600, 9 * Day + 23 * 3600},
         offset \in {-5 * 3600, 0, 2 * 3600, 5 * 3600 + 1800} :
       GetDashboardIn("u1", [date |-> d], offset)

SpecZone == Init /\ [][NextZone]_vars

(***************************************************************************)
(* Claims about the workout API.                                           *)
(***************************************************************************)
\* The formula value of a stored workout, for its owner's profile weight.
WorkoutCalories(doc, profiles) ==
  CaloriesFormula(doc.exerciseType, doc.intensity, doc.duration, profiles[doc.user].weight)

WorkoutInputs(doc) == <<doc.exerciseType, doc.intensity, doc.duration>>

\* C1: after a successful PUT /api/workouts/:id that changes exerciseType,
\* intensity or duration, the stored caloriesBurned is the formula value of the
\* new fields. Stated for the PUTs that start from a workout whose caloriesBurned
\* was the formula value of its fields, with no POST in flight, and that leave a
\* pair of the MET table.
C1_PutRecomputesCalories ==
  [][ ( /\ res'.op = "PUT /api/workouts/:id"
        /\ res'.status = 200
        /\ inflight = {}
        /\ res'.id \in DOMAIN workouts
        /\ workouts[res'.id].caloriesBurned = WorkoutCalories(workouts[res'.id], users)
        /\ WorkoutInputs(workouts'[res'.id]) # WorkoutInputs(workouts[res'.id])
        /\ getMETValue(workouts'[res'.id].exerciseType, workouts'[res'.id].intensity) # 0 )
      => workouts'[res'.id].caloriesBurned = WorkoutCalories(workouts'[res'.id], users')
    ]_vars

\* C4: every stored workout's intensity is a key of the MET table entry of its
\* exerciseType.
C4_StoredPairInMetTable ==
  \A id \in DOMAIN workouts :
    workouts[id].intensity \in getIntensities(workouts[id].exerciseType)

(***************************************************************************)
(* Claims about the meal API.                                              *)
(***************************************************************************)
\* The sum over the foods of field * quantity, rounded to 2 decimals (hundredths).
TotalOf(foods, field) ==
  LET RECURSIVE Acc(_)
      Acc(i) == IF i = 0 THEN 0
                ELSE Acc(i - 1) + foods[i][field] * foods[i].quantity
  IN Round(Acc(Len(foods)), 10)

\* C2: every stored meal's six totals are the rounded sums over its foods.
C2_StoredTotalsMatchFoods ==
  \A id \in DOMAIN meals :
    /\ meals[id].totalCalories = TotalOf(meals[id].foods, "calories")
    /\ meals[id].totalProtein = TotalOf(meals[id].foods, "protein")
    /\ meals[id].totalCarbs = TotalOf(meals[id].foods, "carbs")
    /\ meals[id].totalFat = TotalOf(meals[id].foods, "fat")
    /\ meals[id].totalFiber = TotalOf(meals[id].foods, "fiber")
    /\ meals[id].totalSugar = TotalOf(meals[id].foods, "sugar")

(***************************************************************************)
(* Claims about the sleep API.                                             *)
(***************************************************************************)
\* The minutes between two instants, rounded to the nearest integer.
MinutesBetween(start, end) == (2 * (end - start) + 60) \div 120

\* C3: after a successful PUT /api/sleep/:id that changes sleepStart and/or
\* sleepEnd, the stored duration is the number of minutes between the record's
\* sleepStart and sleepEnd. Stated for the PUTs that leave sleepEnd after
\* sleepStart.
C3_PutRecomputesDuration ==
  [][ ( /\ res'.op = "PUT /api/sleep/:id"
        /\ res'.status = 200
        /\ res'.id \in DOMAIN sleeps
        /\ <<sleeps'[res'.id].sleepStart, sleeps'[res'.id].sleepEnd>>
             # <<sleeps[res'.id].sleepStart, sleeps[res'.id].sleepEnd>>
        /\ sleeps'[res'.id].sleepEnd > sleeps'[res'.id].sleepStart )
      => sleeps'[res'.id].duration
           = MinutesBetween(sleeps'[res'.id].sleepStart, sleeps'[res'.id].sleepEnd)
    ]_vars

(***************************************************************************)
(* Claims about ownership.                                                 *)
(***************************************************************************)
\* The collection a PUT or DELETE on /:id addresses.
Addressed(op, w, m, s, p) ==
  CASE op \in {"PUT /api/workouts/:id", "DELETE /api/workouts/:id"} -> w
    [] op \in {"PUT /api/meals/:id", "DELETE /api/meals/:id"} -> m
    [] op \in {"PUT /api/sleep/:id", "DELETE /api/sleep/:id"} -> s
    [] op \in {"PUT /api/progress/:id", "DELETE /api/progress/:id"} -> p
    [] OTHER -> Empty

ByIdOps ==
  {"PUT /api/workouts/:id", "DELETE /api/workouts/:id",
   "PUT /api/meals/:id", "DELETE /api/meals/:id",
   "PUT /api/sleep/:id", "DELETE /api/sleep/:id",
   "PUT /api/progress/:id", "DELETE /api/progress/:id"}

Records == <<workouts, meals, sleeps, progress>>

\* The request answered in this step is a PUT or DELETE on the id of a stored
\* record that the requesting user does not own.
NotOwnersRequest ==
  /\ res'.op \in ByIdOps
  /\ res'.id \in DOMAIN Addressed(res'.op, workouts, meals, sleeps, progress)
  /\ Addressed(res'.op, workouts, meals, sleeps, progress)[res'.id].user # res'.user

Request(router, path) == [router |-> router, path |-> path]

\* C7: a GET of /api/workouts/exercise-types (answered 200 with or without a
\* token), /api/sleep/trends, /api/progress/summary or
\* /api/progress/measurements is answered by the handler declared for that path.
C7_LiteralRoutesReachOwnHandler ==
  /\ res.req = Request("workouts", <<"exercise-types">>)
       => (res.op = "GET /api/workouts/exercise-types" /\ res.status = 200)
  /\ res.req = Request("sleep", <<"trends">>) => res.op = "GET /api/sleep/trends"
  /\ res.req = Request("progress", <<"summary">>) => res.op = "GET /api/progress/summary"
  /\ res.req = Request("progress", <<"measurements">>)
       => res.op = "GET /api/progress/measurements"

(***************************************************************************)
(* Claims about the statistics.                                            *)
(***************************************************************************)
NoRecords(u) ==
  /\ Owned(workouts, u) = {}
  /\ Owned(meals, u) = {}
  /\ Owned(sleeps, u) = {}
  /\ Owned(progress, u) = {}

NoAverage == [num |-> 0, den |-> 1]

ZeroSleep ==
  [records |-> 0, averageDuration |-> NoAverage, totalSleepTime |-> 0,
   averageQuality |-> NoAverage]

ZeroProgress ==
  [currentWeight |-> 0, startingWeight |-> 0, weightChange |-> 0,
   averageWeight |-> NoAverage, totalEntries |-> 0]

ZeroDashboardSummary ==
  [workouts |-> [count |-> 0, totalDuration |-> 0, totalCalories |-> 0,
                 averageDuration |-> 0],
   meals |-> [count |-> 0, totalCalories |-> 0, totalProtein |-> 0,
              totalCarbs |-> 0, totalFat |-> 0],
   sleep |-> [count |-> 0, totalDuration |-> 0, averageDuration |-> 0,
              averageQuality |-> 0]]

\* The all-zero answer to a request for statistics
ZeroAnswer(req, data) ==
  CASE req = Request("workouts", <<"stats", "summary">>) ->
         data.summary = [totalWorkouts |-> 0, totalDuration |-> 0,
                         totalCaloriesBurned |-> 0, averageDuration |-> NoAverage,
                         averageCaloriesBurned |-> NoAverage]
    [] req = Request("meals", <<"nutrition", "stats">>) ->
         data.summary = [totalMeals |-> 0, averageCalories |-> NoAverage,
                         averageProtein |-> NoAverage, averageCarbs |-> NoAverage,
                         averageFat |-> NoAverage, totalCalories |-> 0,
                         totalProtein |-> 0, totalCarbs |-> 0, totalFat |-> 0]
    [] req = Request("meals", <<"nutrition", "daily">>) ->
         data.nutrition = [totalCalories |-> 0, totalProtein |-> 0, totalCarbs |-> 0,
                           totalFat |-> 0, totalFiber |-> 0, totalSugar |-> 0,
                           mealCount |-> 0]
    [] req = Request("sleep", <<"stats", "summary">>) -> data.summary = ZeroSleep
    [] req = Request("sleep", <<"stats", "weekly">>) -> data.summary = ZeroSleep
    [] req = Request("progress", <<"summary">>) -> data.summary = ZeroProgress
    [] req = Request("dashboard", <<"stats">>) ->
         /\ data.workouts = [totalWorkouts |-> 0, totalDuration |-> 0,
                             totalCalories |-> 0, averageDuration |-> NoAverage,
                             averageCalories |-> NoAverage]
         /\ data.meals = [totalMeals |-> 0, totalCalories |-> 0, totalProtein |-> 0,
                          totalCarbs |-> 0, totalFat |-> 0,
                          averageCalories |-> NoAverage]
         /\ data.sleep = ZeroSleep
         /\ data.progress = ZeroProgress
    [] req = Request("dashboard", <<>>) ->
         /\ data.daily.summary = ZeroDashboardSummary
         /\ data.weekly.summary = ZeroDashboardSummary

StatisticsRequests ==
  {Request("workouts", <<"stats", "summary">>), Request("meals", <<"nutrition", "stats">>),
   Request("meals", <<"nutrition", "daily">>), Request("sleep", <<"stats", "summary">>),
   Request("sleep", <<"stats", "weekly">>), Request("progress", <<"summary">>),
   Request("dashboard", <<"stats">>), Request("dashboard", <<>>)}

\* C8: a request for statistics by a registered user none of whose records falls
\* in the window is answered 200 with every count, sum and average 0. Stated for
\* the users without any record.
C8_EmptyWindowAllZero ==
  (res.req \in StatisticsRequests /\ res.user \in DOMAIN users /\ NoRecords(res.user))
    => (res.status = 200 /\ ZeroAnswer(res.req, res.data))

(***************************************************************************)
(* Claims about the dashboard.                                             *)
(***************************************************************************)
\* The step is the answer to a GET /api/dashboard (the clock stands still in it).
DashboardAnswered ==
  res'.op = "GET /api/dashboard" /\ res'.status = 200 /\ now' = now

\* C5: the dashboard of a user whose profile weight equals the target weight
\* carries goalProgress 0, a number.
C5_GoalProgressZeroAtTarget ==
  [][ (DashboardAnswered /\ users[res'.user].weight = users[res'.user].targetWeight)
      => (~res'.data.progress.goalProgress.isNull
            /\ res'.data.progress.goalProgress.num = 0) ]_vars

\* The user's progress entries of the 30 days before t
InLookback(u, t) == {i \in DOMAIN progress : progress[i].user = u
                                             /\ progress[i].date >= t - 30 * Day}

Newest(ids) == CHOOSE i \in ids : \A j \in ids : progress[j].date <= progress[i].date
Earliest(ids) == CHOOSE i \in ids : \A j \in ids : progress[i].date <= progress[j].date

\* The BMI of a weight in kg and a height in cm, in tenths, rounded to the nearest
BmiTenths(weight, height) == (2 * weight * 100000 + height * height) \div (2 * height * height)

\* C9: the dashboard's currentBMI is the BMI of the weight of the newest progress
\* entry in the lookback window and, without one, of the profile's weight; it is
\* not null.
C9_CurrentBmiFallsBackToProfile ==
  [][ DashboardAnswered =>
        LET ids == InLookback(res'.user, now)
            weight == IF ids # {} THEN progress[Newest(ids)].weight
                      ELSE users[res'.user].weight
        IN /\ ~res'.data.progress.currentBMI.isNull
           /\ res'.data.progress.currentBMI.v = BmiTenths(weight, users[res'.user].height)
    ]_vars

\* C10: the dashboard's weightChange is the weight of the newest minus the weight
\* of the earliest of all the user's progress entries in the lookback window,
\* and 0 when the window holds fewer than 2 of them.
C10_WeightChangeOverWholeWindow ==
  [][ DashboardAnswered =>
        LET ids == InLookback(res'.user, now)
        IN res'.data.progress.weightChange
             = IF Cardinality(ids) < 2 THEN 0
               ELSE progress[Newest(ids)].weight - progress[Earliest(ids)].weight
    ]_vars

\* C11: the dashboard's charts.weightTrend is in ascending date order: of two
\* adjacent entries the earlier one's date is at most the later one's.
C11_WeightTrendAscending ==
  [][ DashboardAnswered =>
        LET trend == res'.data.charts.weightTrend
        IN \A k \in 1..(Len(trend) - 1) : trend[k].date <= trend[k + 1].date
    ]_vars

\* The first instant of day k (0 to 6) of the week, starting on Sunday, that
\* holds the instant t (day 0 of the epoch is a Thursday).
WeekDay(t, k) == ((t \div Day) - ((t \div Day + 4) % 7) + k) * Day

\* The records of a collection that user u dated on the day that starts at d
DatedOn(coll, u, d) ==
  {i \in DOMAIN coll : coll[i].user = u /\ coll[i].date >= d /\ coll[i].date < d + Day}

\* C12: charts.weeklyCalories has 7 entries; entry k is the k-th day of the week,
\* starting on Sunday, of the target date, its intake the sum of totalCalories
\* of the user's meals of that day and its burned the sum of caloriesBurned of
\* the user's workouts of that day; a record of the week is in exactly one entry.
C12_WeeklyCaloriesPerDay ==
  (res.op = "GET /api/dashboard" /\ res.status = 200) =>
    LET chart == res.data.charts.weeklyCalories
        t == res.data.date
        u == res.user
    IN /\ Len(chart) = 7
       /\ \A k \in 0..6 :
            /\ chart[k + 1].date * Day = WeekDay(t, k)
            /\ chart[k + 1].intake
                 = SumOf([i \in DatedOn(meals, u, WeekDay(t, k)) |-> meals[i].totalCalories])
            /\ chart[k + 1].burned
                 = SumOf([i \in DatedOn(workouts, u, WeekDay(t, k)) |->
                            workouts[i].caloriesBurned])
       /\ WeekDay(t, 0) <= t /\ t < WeekDay(t, 0) + 7 * Day
       /\ \A i \in DOMAIN meals :
            (meals[i].user = u /\ meals[i].date >= WeekDay(t, 0)
               /\ meals[i].date < WeekDay(t, 0) + 7 * Day)
            => Cardinality({k \in 0..6 : i \in DatedOn(meals, u, WeekDay(t, k))}) = 1

\* A dashboard for a date in the middle of a week whose first day, Sunday, has
\* an intake
C12_Witness ==
  /\ res.op = "GET /api/dashboard"
  /\ res.status = 200
  /\ res.data.date > WeekDay(res.data.date, 3)
  /\ res.data.charts.weeklyCalories[1].intake > 0

(***************************************************************************)
(* Claims about the breakdowns by category.                                *)
(***************************************************************************)
\* The breakdowns a response carries, each with the collection and the field it
\* groups and with whether the handler went through the records newest first
\* (the dashboard's fetched list) or in the order of their creation.
BreakdownsOf(r) ==
  CASE r.op = "GET /api/dashboard" ->
         {[groups |-> r.data.weekly.exerciseBreakdown, coll |-> workouts,
           field |-> "exerciseType", newestFirst |-> TRUE],
          [groups |-> r.data.weekly.mealTypeBreakdown, coll |-> meals,
           field |-> "mealType", newestFirst |-> TRUE]}
    [] r.op = "GET /api/workouts/stats/summary" ->
         {[groups |-> r.data.exerciseBreakdown, coll |-> workouts,
           field |-> "exerciseType", newestFirst |-> FALSE]}
    [] r.op = "GET /api/meals/nutrition/stats" ->
         {[groups |-> r.data.mealTypeBreakdown, coll |-> meals,
           field |-> "mealType", newestFirst |-> FALSE]}
    [] r.op = "GET /api/sleep/stats/summary" ->
         {[groups |-> r.data.qualityBreakdown, coll |-> sleeps,
           field |-> "quality", newestFirst |-> FALSE]}
    [] OTHER -> {}

\* The rank of the first record of a category that the handler came across
FirstEncountered(b, u, key) ==
  LET of == {i \in Owned(b.coll, u) : b.coll[i][b.field] = key}
  IN IF b.newestFirst THEN 0 - Max({b.coll[i].date : i \in of}) ELSE Min(of)

\* C13: every breakdown by category of a response is in the order of descending
\* count, and of two categories of equal count the one whose first record was
\* encountered first comes first.
C13_BreakdownByDescendingCount ==
  res.status = 200 =>
    \A b \in BreakdownsOf(res) :
      \A k \in 1..(Len(b.groups) - 1) :
        LET x == b.groups[k]
            y == b.groups[k + 1]
        IN \/ x.count > y.count
           \/ /\ x.count = y.count
              /\ FirstEncountered(b, res.user, x.key) < FirstEncountered(b, res.user, y.key)

(***************************************************************************)
(* Claims about the window of the statistics by period.                    *)
(***************************************************************************)
\* The workouts and the meals that a response to a request for the statistics
\* of a period counts
CountedByPeriod(r) ==
  CASE r.req = Request("workouts", <<"stats", "summary">>) ->
         [workouts |-> r.data.summary.totalWorkouts, meals |-> 0]
    [] r.req = Request("dashboard", <<"stats">>) ->
         [workouts |-> r.data.workouts.totalWorkouts, meals |-> r.data.meals.totalMeals]

\* The records of user u dated from the start of the period to the instant t
InPeriod(coll, u, period, dflt, t) ==
  {i \in DOMAIN coll : /\ coll[i].user = u
                       /\ coll[i].date >= PeriodStart(period, dflt, t)
                       /\ coll[i].date <= t}

PeriodAnswered ==
  /\ res'.req \in {Request("workouts", <<"stats", "summary">>), Request("dashboard", <<"stats">>)}
  /\ res'.status = 200
  /\ now' = now

\* C14: the statistics of a period count exactly the records of the requesting
\* user that are dated from the start of the period to the instant of the
\* request: no record dated after that instant and no record of another user.
C14_PeriodWindowEndsNow ==
  [][ PeriodAnswered =>
        LET u == res'.user
            ofWorkouts == res'.req.router = "workouts"
            dflt == IF ofWorkouts THEN "week" ELSE "month"
            period == res'.data.period
        IN /\ CountedByPeriod(res').workouts
                = Cardinality(InPeriod(workouts, u, period, dflt, now))
           /\ ~ofWorkouts =>
                CountedByPeriod(res').meals
                  = Cardinality(InPeriod(meals, u, period, dflt, now)) ]_vars

(***************************************************************************)
(* Claims about the dashboard and the clock.                               *)
(***************************************************************************)
\* C15: two requests for the dashboard of the same explicit date by the same
\* user, with no record written between them, get the same data, whatever the
\* clock reads at each. (A response stays the last one only as long as nothing
\* but the clock and further dashboard requests happen.)
C15_DashboardIndependentOfClock ==
  [][ ( /\ res.op = "GET /api/dashboard" /\ res.status = 200
        /\ res'.op = "GET /api/dashboard" /\ res'.status = 200
        /\ res'.user = res.user
        /\ res'.data.date = res.data.date )
      => res'.data = res.data ]_vars

(***************************************************************************)
(* Claims about the dashboard's parallel queries.                          *)
(***************************************************************************)
\* C16: the dashboard answers only once its eight queries have settled. It
\* answers 200 only when all eight were fulfilled, and then with the data that
\* the eight results determine, whatever the order they arrived in; where no
\* record was written meanwhile that is the data of the records as they are. It
\* answers 500 exactly when a query was rejected, and then without data.
C16_DashboardAfterAllEight ==
  [][ (res'.op = "GET /api/dashboard" /\ res'.status # 0 /\ res' # res) =>
        \E h \in inflight \ inflight' :
          /\ h.id = 0
          /\ res'.status = (IF h.doc.failed THEN 500 ELSE 200)
          /\ res'.status = 500 => res'.data = NoData
          /\ res'.status = 200 =>
               /\ h.doc.done = DOMAIN ReadNow
               /\ \E tie \in BOOLEAN :
                    res'.data = DashboardFrom(h.doc.user, h.doc.date, tie, h.doc.clock,
                                              h.doc.read)
               /\ h.doc.read = ReadNow =>
                    \E tie \in BOOLEAN :
                      res'.data = DashboardData(h.doc.user, h.doc.date, tie) ]_vars

C16_Witness ==
  /\ res.op = "GET /api/dashboard"
  /\ res.status = 200
  /\ inflight = {}
  /\ res.data.daily.summary.meals.count = 1
  /\ res.data.weekly.summary.meals.count = 1

(***************************************************************************)
(* Claims about sleep across midnight.                                     *)
(***************************************************************************)
\* C17: a POST /api/sleep whose sleepEnd is earlier than its sleepStart (to bed
\* at 23:00, up at 06:00) is not rejected: it is answered 201 and the record's
\* duration is that of the night with the end moved to the next day (420
\* minutes for 23:00 to 06:00).
C17_SleepAcrossMidnightAccepted ==
  [][ \A u \in UserIds, body \in PostSleepBodies :
        ( /\ Has(body, "sleepStart") /\ Has(body, "sleepEnd")
          /\ body.sleepEnd < body.sleepStart
          /\ CanCreate
          /\ PostSleep(u, body) )
        => /\ res'.status = 201
           /\ res'.data.duration = (body.sleepEnd + Day - body.sleepStart) \div Minute ]_vars

(***************************************************************************)
(* Claims about the BMI and the BMR.                                       *)
(***************************************************************************)
\* The category of a BMI in tenths by the thresholds 18.5, 25 and 30, each
\* threshold in the upper category
CategoryOf(bmi) ==
  CASE bmi < 185 -> "Underweight"
    [] bmi >= 185 /\ bmi < 250 -> "Normal weight"
    [] bmi >= 250 /\ bmi < 300 -> "Overweight"
    [] bmi >= 300 -> "Obese"

\* The doubles of (weight, height) that make calculate-bmi answer bmi
DoublesAnswering(weight, height, bmi) ==
  {x \in bmiDouble(weight, height) : toFixed(x) = bmi}

BmiAnswered == res.op = "POST /api/progress/calculate-bmi" /\ res.status = 200

\* C18: the category that POST /api/progress/calculate-bmi answers is the one of
\* the thresholds for the BMI it answers, and it is the category that
\* getBMICategory() of a progress record resolves to for the same weight and
\* height.
C18_SameCategoryBothWays ==
  BmiAnswered =>
    /\ res.data.category = CategoryOf(res.data.bmi)
    /\ \A x \in DoublesAnswering(res.data.weight, res.data.height, res.data.bmi) :
         \A bmi \in calculateBMI(x) : getBMICategory(bmi) = res.data.category

\* The order of the categories
Rank ==
  ("Underweight" :> 1) @@ ("Normal weight" :> 2) @@ ("Overweight" :> 3) @@ ("Obese" :> 4)

\* C19: with the height fixed, a greater weight never gets a lower category,
\* and every category is one of the four. For POST /api/progress/calculate-bmi
\* it is stated of two requests in a row, for getBMICategory() of the weight of
\* the second request and every smaller weight. (Of equal weights there is
\* nothing to state: both computations are functions.)
C19_CategoryMonotoneInWeight ==
  [][ (res'.op = "POST /api/progress/calculate-bmi" /\ res'.status = 200) =>
        LET h == res'.data.height
            w2 == res'.data.weight
            Categories(w) == {getBMICategory(bmi) :
                                bmi \in UNION {calculateBMI(x) : x \in bmiDouble(w, h)}}
        IN /\ res'.data.category \in DOMAIN Rank
           /\ ( /\ res.op = "POST /api/progress/calculate-bmi" /\ res.status = 200
                /\ res.data.height = h
                /\ res.data.weight < w2 )
              => Rank[res.data.category] <= Rank[res'.data.category]
           /\ \A w1 \in BmiWeights :
                /\ Categories(w1) \subseteq DOMAIN Rank
                /\ w1 < w2 =>
                     \A c1 \in Categories(w1), c2 \in Categories(w2) :
                       Rank[c1] <= Rank[c2] ]_vars

C19_Witness ==
  /\ BmiAnswered
  /\ res.data.weight = 1000
  /\ res.data.height = 200
  /\ res.data.category = "Overweight"

\* The user of the claim C20: male, 80 kg, 180 cm, 30 years
RegisteredMale80 ==
  /\ res.op = "POST /api/auth/register"
  /\ res.status = 201
  /\ res.user \in DOMAIN users
  /\ users[res.user].gender = "male"
  /\ users[res.user].weight = 80
  /\ users[res.user].height = 180
  /\ users[res.user].age = 30

\* C20 as stated: calculateBMR of a male user of 80 kg, 180 cm and 30 years
\* returns 1796.
C20_BmrIs1796 == RegisteredMale80 => res.data.bmr = 1796

\* C20: calculateBMR of a male user of 80 kg, 180 cm and 30 years returns 1854,
\* the rounded value of 88.362 + 13.397 * 80 + 4.799 * 180 - 5.677 * 30 =
\* 1853.632.
C20_BmrIs1854 ==
  RegisteredMale80 =>
    /\ res.data.bmr = 1854
    /\ 88362 + 13397 * 80 + 4799 * 180 - 5677 * 30 = 1853632

C20_Witness == RegisteredMale80 /\ res.data.bmr > 0

(***************************************************************************)
(* Claims about the creation of a workout.                                 *)
(***************************************************************************)
\* The step in which POST /api/workouts answers 201
WorkoutCreated == res'.op = "POST /api/workouts" /\ res'.status = 201 /\ res' # res

\* C21: when POST /api/workouts answers 201, the workout it answers with and the
\* workout stored under its id both have the caloriesBurned of the formula for
\* their fields and the weight of the requesting user.
C21_PostStoresFormulaCalories ==
  [][ WorkoutCreated =>
        /\ res'.data.caloriesBurned = WorkoutCalories(res'.data, users')
        /\ res'.id \in DOMAIN workouts'
        /\ workouts'[res'.id].user = res'.user
        /\ workouts'[res'.id].caloriesBurned = WorkoutCalories(workouts'[res'.id], users')
    ]_vars

\* C22: a POST /api/workouts whose exercise type is not in the MET table, or
\* whose intensity is not listed under its exercise type, is answered with an
\* error and stores nothing: the workouts are what they were, and no handler
\* is left to store one later.
C22_UnknownPairRejected ==
  [][ \A u \in UserIds, t \in {"running", "yoga", "rowing"}, i \in {"6 mph", "hatha"} :
        LET body == [exerciseType |-> t, intensity |-> i, duration |-> 30,
                     date |-> (nextId - 1 - MaxRecords) * Day]
        IN ( /\ ~(t \in DOMAIN MET_VALUES /\ i \in DOMAIN MET_VALUES[t])
             /\ PostWorkoutCreate(u, body) )
           => /\ res'.status >= 400
              /\ workouts' = workouts
              /\ inflight' = inflight ]_vars

C22_Witness ==
  /\ res.op = "POST /api/workouts"
  /\ res.status = 400
  /\ res.user \in DOMAIN users
  /\ workouts # Empty

(***************************************************************************)
(* Claims about the figures of a day.                                      *)
(***************************************************************************)
\* C23: daily.calorieBalance of a dashboard is the sum of totalCalories of the
\* user's meals dated on the target day minus the sum of caloriesBurned of the
\* user's workouts dated on that day (meal calories in hundredths), a signed
\* value, negative when more was burned than eaten.
C23_CalorieBalance ==
  (res.op = "GET /api/dashboard" /\ res.status = 200) =>
    LET d == (res.data.date \div Day) * Day
        intake == SumOf([i \in DatedOn(meals, res.user, d) |-> meals[i].totalCalories])
        burned == SumOf([i \in DatedOn(workouts, res.user, d) |->
                           workouts[i].caloriesBurned])
    IN /\ res.data.daily.calorieBalance = intake - 100 * burned
       /\ 100 * burned > intake => res.data.daily.calorieBalance < 0

\* A day with a meal and a workout that burned more than the meal gave, while
\* another user has a meal of that day too
C23_Witness ==
  /\ res.op = "GET /api/dashboard"
  /\ res.status = 200
  /\ res.data.daily.calorieBalance < 0
  /\ res.data.daily.summary.meals.totalCalories > 0
  /\ res.data.daily.summary.workouts.totalCalories > 0
  /\ \E i \in DOMAIN meals : meals[i].user # res.user


C25_NoWorkoutWithDefaultCalories ==
  /\ \A i \in DOMAIN workouts : workouts[i].caloriesBurned = WorkoutCalories(workouts[i], users)
  /\ (res.op = "GET /api/dashboard" /\ res.status = 200) =>
       res.data.daily.summary.workouts.totalCalories
         = SumOf([i \in DatedOn(workouts, res.user, (res.data.date \div Day) * Day) |->
                    WorkoutCalories(workouts[i], users)])

\* The average a summary of the dashboard reports is the sum over the count, and
\* 0 for no record
ExactAverage(summary) ==
  IF summary.count = 0 THEN summary.averageDuration = 0
  ELSE summary.averageDuration * summary.count = summary.totalDuration

\* C26: every average of the daily and weekly summaries of the dashboard and of
\* the statistics of a period is sum / count over the records of its window
\* (averageDuration * count = totalDuration) and 0 for an empty window, and a
\* dashboard and the statistics of a period answered one after the other over
\* the same workouts report the same averageDuration.
C26_AverageIsSumOverCount ==
  [][ /\ DashboardAnswered =>
           /\ ExactAverage(res'.data.daily.summary.workouts)
           /\ ExactAverage(res'.data.weekly.summary.workouts)
           /\ ExactAverage(res'.data.daily.summary.sleep)
           /\ ExactAverage(res'.data.weekly.summary.sleep)
      /\ (res'.req = Request("dashboard", <<"stats">>) /\ res'.status = 200) =>
           LET w == res'.data.workouts
           IN IF w.totalWorkouts = 0 THEN w.averageDuration.num = 0
              ELSE w.averageDuration.num * w.totalWorkouts
                     = w.totalDuration * w.averageDuration.den
      /\ ( /\ DashboardAnswered
           /\ res.req = Request("dashboard", <<"stats">>) /\ res.status = 200
           /\ res.user = res'.user
           /\ FindFrom(workouts, res.user, startOfWeek(res'.data.date))
                = FindFrom(workouts, res.user, PeriodStart(res.data.period, "month", now)) )
          => res'.data.weekly.summary.workouts.averageDuration * res.data.workouts.averageDuration.den
               = res.data.workouts.averageDuration.num ]_vars

(***************************************************************************)
(* Claims about the owner of a record.                                     *)
(***************************************************************************)
\* C27: the user field of a stored workout, meal, sleep or progress record is
\* the user who created it: no request, and no PUT on /:id whatever its body
\* carries, changes the owner of a record.
C27_OwnerNeverChanges ==
  [][ /\ \A i \in DOMAIN workouts \cap DOMAIN workouts' : workouts'[i].user = workouts[i].user
      /\ \A i \in DOMAIN meals \cap DOMAIN meals' : meals'[i].user = meals[i].user
      /\ \A i \in DOMAIN sleeps \cap DOMAIN sleeps' : sleeps'[i].user = sleeps[i].user
      /\ \A i \in DOMAIN progress \cap DOMAIN progress' : progress'[i].user = progress[i].user
      /\ (res'.status = 201 /\ res' # res) =>
           \A coll \in {workouts', meals', sleeps', progress'} :
             res'.id \in DOMAIN coll => coll[res'.id].user = res'.user ]_vars

(***************************************************************************)
(* Claims about the week of the dashboard.                                 *)
(***************************************************************************)
\* C28: in a dashboard, the intake of the 7 entries of charts.weeklyCalories
\* adds up to weekly.summary.meals.totalCalories and the burned of the 7
\* entries to weekly.summary.workouts.totalCalories, for every target date.
C28_ChartAddsUpToWeeklySummary ==
  (res.op = "GET /api/dashboard" /\ res.status = 200) =>
    LET chart == res.data.charts.weeklyCalories
        weekly == res.data.weekly.summary
    IN /\ SumOf([k \in 1..Len(chart) |-> chart[k].intake]) = weekly.meals.totalCalories
       /\ SumOf([k \in 1..Len(chart) |-> chart[k].burned]) = weekly.workouts.totalCalories

\* C29: in a dashboard the daily records of a kind are among the weekly records
\* of that kind, so for workouts, meals and sleep the daily count, the daily
\* totalDuration and the daily totalCalories are at most the weekly ones.
C29_DailyWithinWeekly ==
  (res.op = "GET /api/dashboard" /\ res.status = 200) =>
    LET daily == res.data.daily.summary
        weekly == res.data.weekly.summary
    IN /\ daily.workouts.count <= weekly.workouts.count
       /\ daily.meals.count <= weekly.meals.count
       /\ daily.sleep.count <= weekly.sleep.count
       /\ daily.workouts.totalDuration <= weekly.workouts.totalDuration
       /\ daily.sleep.totalDuration <= weekly.sleep.totalDuration
       /\ daily.workouts.totalCalories <= weekly.workouts.totalCalories
       /\ daily.meals.totalCalories <= weekly.meals.totalCalories

\* C30: for every time zone of the server, entry k of charts.weeklyCalories is
\* labelled with the calendar date, in that time zone, of the day whose meals
\* and workouts it sums, the k-th day of the target week; the 7 labels are 7
\* consecutive dates that begin with the Sunday that starts the target week.
C30_ChartLabelIsLocalDate ==
  [][ \A d \in {3 * Day + 3600, 5 * Day + 12 * 3600, 9 * Day + 23 * 3600},
         offset \in {-5 * 3600, 0, 2 * 3600, 5 * 3600 + 1800} :
        (GetDashboardIn("u1", [date |-> d], offset) /\ res'.status = 200) =>
          LET chart == res'.data.charts.weeklyCalories
              local(coll) == [i \in DOMAIN coll |-> [coll[i] EXCEPT !.date = @ + offset]]
          IN /\ Len(chart) = 7
             /\ getDay(chart[1].date * Day) = 0
             /\ \A k \in 0..6 :
                  LET day == WeekDay(d + offset, k)
                  IN /\ chart[k + 1].date = DayIndex(day)
                     /\ chart[k + 1].date = chart[1].date + k
                     /\ chart[k + 1].intake
                          = SumOf([i \in DatedOn(local(meals), "u1", day) |->
                                     meals[i].totalCalories])
                     /\ chart[k + 1].burned
                          = SumOf([i \in DatedOn(local(workouts), "u1", day) |->
                                     workouts[i].caloriesBurned]) ]_vars

====
